---- MODULE Spec2Model ----
(***************************************************************************)
(* Model of the prerevenue valuation / success-score service.              *)
(*                                                                         *)
(* Two families of code are modelled:                                      *)
(*  - the valuation/score endpoint  (pages/api/successscore/index.ts);     *)
(*  - the calibration store and its endpoints: the market-analysis API in  *)
(*    its two source variants (pages/api/market-analysis/index.ts and the  *)
(*    variant with bearer-token protection), and the CLI update script.    *)
(*                                                                         *)
(* Numbers.  JavaScript numbers are carried as integers in fixed units:    *)
(*   money in thousandths of a dollar (Mills), category multipliers in     *)
(*   tenths, the quality multiplier in units of 10^-8.  A product with a  *)
(*   decimal factor is taken exactly and floored to the unit, so a value   *)
(*   differs from the IEEE double of the code by less than one unit.       *)
(*   NaN (the result of parseInt on a non-numeric string) is the reserved  *)
(*   value NaN; every comparison with it is FALSE, as in JavaScript.       *)
(* Strings are TLA+ strings; includes/toLowerCase/trim/split are computed  *)
(* character by character.                                                 *)
(***************************************************************************)
EXTENDS Integers, Sequences, FiniteSets, TLC

VARIABLES
    store,      \* data/market-analysis.json: <<>> while it holds no complete JSON
                \* text (absent, or opened for writing), or the MarketData written
    now,        \* the clock read by new Date().toISOString()
    source,     \* the listings the marketplace API currently holds
    env,        \* process.env: CRON_SECRET and OPENAI_API_KEY
    formData,   \* body of the valuation/score request being served
    oracle,     \* what the completion API does for that request
    calls,      \* the last request served and what the calls it made returned
    resp,       \* the last response sent (endpoint, status, body)
    writer,     \* the writeFileSync in progress: the file as it was and the data
                \* being written; <<>> when no write is in progress
    pager       \* the locals of the pagination loop that is running, with the
                \* requests it has issued and the last page it received; <<>>
                \* when no loop is running

vars == <<store, now, source, env, formData, oracle, calls, resp, writer, pager>>

(***************************************************************************)
(* JavaScript strings                                                      *)
(***************************************************************************)

\* s.includes(w)
Includes(s, w) ==
    \E i \in 1..(Len(s) - Len(w) + 1) : SubSeq(s, i, i + Len(w) - 1) = w

UpperChars == <<"A","B","C","D","E","F","G","H","I","J","K","L","M",
                "N","O","P","Q","R","S","T","U","V","W","X","Y","Z">>
LowerChars == <<"a","b","c","d","e","f","g","h","i","j","k","l","m",
                "n","o","p","q","r","s","t","u","v","w","x","y","z">>

LowerChar(c) ==
    IF \E i \in 1..26 : UpperChars[i] = c
    THEN LowerChars[CHOOSE i \in 1..26 : UpperChars[i] = c]
    ELSE c

RECURSIVE toLowerCase(_)
toLowerCase(s) ==
    IF Len(s) = 0 THEN ""
    ELSE LowerChar(SubSeq(s, 1, 1)) \o toLowerCase(SubSeq(s, 2, Len(s)))

RECURSIVE trimStart(_)
trimStart(s) ==
    IF Len(s) > 0 /\ SubSeq(s, 1, 1) = " " THEN trimStart(SubSeq(s, 2, Len(s))) ELSE s

RECURSIVE trimEnd(_)
trimEnd(s) ==
    IF Len(s) > 0 /\ SubSeq(s, Len(s), Len(s)) = " "
    THEN trimEnd(SubSeq(s, 1, Len(s) - 1)) ELSE s

\* s.trim()
trim(s) == trimEnd(trimStart(s))

\* s.split(' ').length
SplitLength(s) == Cardinality({i \in 1..Len(s) : SubSeq(s, i, i) = " "}) + 1

\* words.some(word => s.includes(word)), words a sequence of strings
SomeIncluded(words, s) == \E i \in 1..Len(words) : Includes(s, words[i])

Digits == <<"0","1","2","3","4","5","6","7","8","9">>
IsDigit(c) == \E i \in 1..10 : Digits[i] = c
DigitValue(c) == (CHOOSE i \in 1..10 : Digits[i] = c) - 1

\* length of the longest run of digits starting at position i of s
RECURSIVE DigitRun(_, _)
DigitRun(s, i) ==
    IF i <= Len(s) /\ IsDigit(SubSeq(s, i, i)) THEN 1 + DigitRun(s, i + 1) ELSE 0

\* value of the decimal digit string d
RECURSIVE DecimalValue(_)
DecimalValue(d) ==
    IF Len(d) = 0 THEN 0
    ELSE 10 * DecimalValue(SubSeq(d, 1, Len(d) - 1)) + DigitValue(SubSeq(d, Len(d), Len(d)))

(***************************************************************************)
(* JavaScript numbers                                                      *)
(***************************************************************************)

\* the value parseInt returns for a string that does not start with a number
NaN == -999999999

IsNum(x) == x # NaN
Gt(a, b) == IsNum(a) /\ IsNum(b) /\ a > b
Ge(a, b) == IsNum(a) /\ IsNum(b) /\ a >= b
Lt(a, b) == IsNum(a) /\ IsNum(b) /\ a < b
Le(a, b) == IsNum(a) /\ IsNum(b) /\ a <= b

Min(a, b) == IF a < b THEN a ELSE b
Max(a, b) == IF a > b THEN a ELSE b

\* floor(v * f / d) for v >= 0, without leaving 32 bits
MulDiv(v, f, d) == (v \div d) * f + ((v % d) * f) \div d

\* money is carried in thousandths of a dollar
Mills == 1000
\* Math.round of a non-negative amount of Mills, in dollars
RoundMills(v) == (v + 500) \div Mills

(***************************************************************************)
(* JavaScript values of a request body                                     *)
(***************************************************************************)

Undefined   == [k |-> "undefined", s |-> "", n |-> 0, a |-> <<>>]
JsString(x) == [k |-> "string", s |-> x, n |-> 0, a |-> <<>>]
JsNumber(x) == [k |-> "number", s |-> "", n |-> x, a |-> <<>>]
JsArray(x)  == [k |-> "array", s |-> "", n |-> 0, a |-> x]

\* the truth value JavaScript gives v in !v and v || d
Truthy(v) ==
    CASE v.k = "undefined" -> FALSE
      [] v.k = "string"    -> v.s # ""
      [] v.k = "number"    -> v.n # 0 /\ v.n # NaN
      [] OTHER             -> TRUE

\* v || d
OrElse(v, d) == IF Truthy(v) THEN v ELSE d

\* parseInt(s, 10) of a string: optional blanks, optional sign, digits
ParseIntString(s) ==
    LET t    == trimStart(s)
        neg  == Len(t) > 0 /\ SubSeq(t, 1, 1) = "-"
        from == IF Len(t) > 0 /\ SubSeq(t, 1, 1) \in {"-", "+"} THEN 2 ELSE 1
        run  == DigitRun(t, from)
        mag  == DecimalValue(SubSeq(t, from, from + run - 1))
    IN  IF run = 0 THEN NaN ELSE IF neg THEN 0 - mag ELSE mag

\* parseInt(v, 10): v is converted to a string first
parseInt(v) ==
    CASE v.k = "string" -> ParseIntString(v.s)
      [] v.k = "number" -> v.n
      [] v.k = "array"  -> IF Len(v.a) = 0 THEN NaN ELSE ParseIntString(v.a[1])
      [] OTHER          -> NaN

\* v.length: defined for strings and arrays, undefined (NaN in comparisons) otherwise
Length(v) ==
    CASE v.k = "string" -> Len(v.s)
      [] v.k = "array"  -> Len(v.a)
      [] OTHER          -> NaN

\* the result of a call that may throw
Returned(x) == [thrown |-> FALSE, value |-> x]
Thrown      == [thrown |-> TRUE, value |-> 0]

(***************************************************************************)
(* The calibration store as the valuation/score endpoint reads it          *)
(***************************************************************************)

\* JavaScript objects keyed by category are functions on a set of strings;
\* multipliers are in tenths
HasKey(obj, key) == key \in DOMAIN obj

getDefaultMarketData_score(t) ==
    [ lastUpdated        |-> t,
      totalProjects      |-> 0,
      soldProjects       |-> 0,
      categoryMultipliers |->
          ("AI" :> 18) @@ ("SaaS" :> 16) @@ ("Automation" :> 15) @@ ("API" :> 14) @@
          ("E-commerce" :> 13) @@ ("Chrome Extension" :> 13) @@ ("Webflow" :> 12) @@
          ("Mobile App" :> 11) @@ ("Marketplace" :> 10) @@ ("Newsletter" :> 9) @@
          ("Web3" :> 8) @@ ("Community" :> 7) @@ ("Blog" :> 6) @@ ("Social Media" :> 5),
      avgRevenueMultiple |-> 25,
      avgProfitMultiple  |-> 30,
      avgTrafficValue    |-> 10,
      avgCommunityValue  |-> 500,
      successPatterns    |-> [ topCategories |-> <<"AI", "SaaS", "Automation">>,
                               avgSoldPrice |-> 15000,
                               avgUserBase |-> 2500,
                               avgTraffic |-> 8000 ] ]

\* the store is <<>> while the file does not exist, <<data>> once written
loadMarketData_score(st, t) ==
    IF Len(st) > 0 THEN st[1] ELSE getDefaultMarketData_score(t)

categoryMappings ==
    << [main |-> "SaaS", variations |-> <<"saas", "software", "software-as-a-service", "b2b software", "web app">>],
       [main |-> "AI", variations |-> <<"ai", "artificial intelligence", "machine learning", "ml", "gpt", "llm">>],
       [main |-> "E-commerce", variations |-> <<"ecommerce", "e-commerce", "online store", "marketplace", "retail">>],
       [main |-> "API", variations |-> <<"api", "rest api", "graphql", "webhook", "integration">>],
       [main |-> "Chrome Extension", variations |-> <<"chrome extension", "browser extension", "extension">>],
       [main |-> "Mobile App", variations |-> <<"mobile app", "ios app", "android app", "react native", "flutter">>],
       [main |-> "Newsletter", variations |-> <<"newsletter", "email list", "email marketing", "substack">>],
       [main |-> "Web3", variations |-> <<"web3", "crypto", "blockchain", "nft", "defi", "dao">>],
       [main |-> "Community", variations |-> <<"community", "forum", "discord", "social network">>],
       [main |-> "Blog", variations |-> <<"blog", "content site", "news site", "publication">>],
       [main |-> "Automation", variations |-> <<"automation", "workflow", "zapier", "no-code">>] >>

\* a lookup that falls back on the profile's price per visitor instead of 1.0
getCategoryMultiplier_trafficPriced(category, marketData) ==
    LET mult == marketData.categoryMultipliers
        categoryLower == toLowerCase(trim(category))
        matches(i) == \E j \in 1..Len(categoryMappings[i].variations) :
                          LET variation == categoryMappings[i].variations[j]
                          IN  Includes(categoryLower, variation) \/ Includes(variation, categoryLower)
        hit == {i \in 1..Len(categoryMappings) : matches(i)}
        first == CHOOSE i \in hit : \A j \in hit : i <= j
        main == categoryMappings[first].main
    IN  IF category = "" THEN 10
        ELSE IF HasKey(mult, category) /\ mult[category] # 0 THEN mult[category]
        ELSE IF hit # {}
             THEN (IF HasKey(mult, main) /\ mult[main] # 0 THEN mult[main] ELSE 10)
        ELSE marketData.avgTrafficValue

\* the multiplier (tenths) the valuation path uses for one category name
getCategoryMultiplier(category, marketData) ==
    LET mult == marketData.categoryMultipliers
        categoryLower == toLowerCase(trim(category))
        matches(i) == \E j \in 1..Len(categoryMappings[i].variations) :
                          LET variation == categoryMappings[i].variations[j]
                          IN  Includes(categoryLower, variation) \/ Includes(variation, categoryLower)
        hit == {i \in 1..Len(categoryMappings) : matches(i)}
        first == CHOOSE i \in hit : \A j \in hit : i <= j
        main == categoryMappings[first].main
    IN  IF category = "" THEN 10
        ELSE IF HasKey(mult, category) /\ mult[category] # 0 THEN mult[category]
        ELSE IF hit # {}
             THEN (IF HasKey(mult, main) /\ mult[main] # 0 THEN mult[main] ELSE 10)
        ELSE 10

(***************************************************************************)
(* Valuation estimator (getEstimatedValuation)                             *)
(***************************************************************************)

testIndicators == <<"test", "hello", "asdf", "123", "qwerty", "sample", "example">>

\* the fixed maximum for a pre-revenue valuation, in dollars
maxValuation == 50000

\* the quality multiplier is carried in units of 10^-8
QualityOne == 100000000

\* multiplier m (units of 10^-8) times a factor given in hundredths
TimesHundredths(m, f) == MulDiv(m, f, 100)

\* floor(v * m / 10^8) for v, m >= 0, computed on 4-digit halves to stay in 32 bits
TimesQuality(v, m) ==
    LET vh == v \div 10000
        vl == v % 10000
        mh == m \div 10000
        ml == m % 10000
    IN  vh * mh + (vh * ml + vl * mh + (vl * ml) \div 10000) \div 10000

\* 10 * (userBase + monthlyTraffic / 10), the efficiency numerator
TotalTraction10(userBase, monthlyTraffic) ==
    IF IsNum(userBase) /\ IsNum(monthlyTraffic) THEN 10 * userBase + monthlyTraffic ELSE NaN

\* efficiency > r, for r = num/den, where efficiency = totalTraction / monthlyCost
EfficiencyAbove(userBase, monthlyTraffic, monthlyCost, num, den) ==
    /\ IsNum(TotalTraction10(userBase, monthlyTraffic))
    /\ IsNum(monthlyCost)
    /\ monthlyCost > 0
    /\ TotalTraction10(userBase, monthlyTraffic) * den > 10 * num * monthlyCost

\* multiplier *= f/100 when cond holds
Scaled(m, cond, f) == IF cond THEN TimesHundredths(m, f) ELSE m

\* the tagline part of the quality multiplier
taglineMultiplier(poor, taglineLower) ==
    LET strongWords == <<"ai", "automation", "saas", "platform", "api", "tool for">>
        targetWords == <<"businesses", "developers", "teams", "companies">>
        vagueWords  == <<"easy", "simple", "fast", "best", "revolutionary">>
    IN  IF poor THEN TimesHundredths(QualityOne, 80)
        ELSE Scaled(Scaled(Scaled(QualityOne,
                                  SomeIncluded(strongWords, taglineLower), 115),
                           SomeIncluded(targetWords, taglineLower), 108),
                    SomeIncluded(vagueWords, taglineLower), 95)

\* the cost-efficiency part of the quality multiplier
efficiencyMultiplier(m, userBase, monthlyTraffic, monthlyCost) ==
    IF Gt(monthlyCost, 0)
    THEN IF EfficiencyAbove(userBase, monthlyTraffic, monthlyCost, 10, 1)
              THEN TimesHundredths(m, 120)
         ELSE IF EfficiencyAbove(userBase, monthlyTraffic, monthlyCost, 5, 1)
              THEN TimesHundredths(m, 108)
         ELSE IF EfficiencyAbove(userBase, monthlyTraffic, monthlyCost, 1, 1)
              THEN m
         ELSE IF EfficiencyAbove(userBase, monthlyTraffic, monthlyCost, 2, 10)
              THEN TimesHundredths(m, 90)
         ELSE TimesHundredths(m, 70)
    ELSE m

\* the engagement part: trafficToUserRatio = userBase > 0 ? monthlyTraffic / userBase : 0
engagementMultiplier(m, userBase, monthlyTraffic) ==
    LET ratioAbove10 == Gt(userBase, 0) /\ IsNum(monthlyTraffic) /\ monthlyTraffic > 10 * userBase
        ratioBelow2  == IF Gt(userBase, 0)
                        THEN IsNum(monthlyTraffic) /\ monthlyTraffic < 2 * userBase
                        ELSE TRUE
    IN  IF ratioAbove10 THEN TimesHundredths(m, 115)
        ELSE IF ratioBelow2 /\ Gt(userBase, 100) THEN TimesHundredths(m, 95)
        ELSE m

\* Math.max(0.5, Math.min(1.8, multiplier))
boundQualityMultiplier(m) ==
    Max(TimesHundredths(QualityOne, 50), Min(TimesHundredths(QualityOne, 180), m))

\* tagline is the value of (formData.tagline || ''); the result is in units of 10^-8
calculateBalancedQualityMultiplier(tagline, userBase, monthlyTraffic, monthlyCost) ==
    LET poor == ~Truthy(tagline) \/ Lt(Length(tagline), 5)
    IN  IF ~poor /\ tagline.k # "string"
        THEN Thrown                         \* tagline.toLowerCase is not a function
        ELSE Returned(boundQualityMultiplier(
                 engagementMultiplier(
                     efficiencyMultiplier(taglineMultiplier(poor, toLowerCase(tagline.s)),
                                          userBase, monthlyTraffic, monthlyCost),
                     userBase, monthlyTraffic)))

\* sum of the multipliers (tenths) of the categories cats[1..n]
RECURSIVE SumCategoryMultipliers(_, _, _)
SumCategoryMultipliers(cats, n, marketData) ==
    IF n = 0 THEN 0
    ELSE SumCategoryMultipliers(cats, n - 1, marketData)
         + getCategoryMultiplier(cats[n], marketData)

\* the catch block of getEstimatedValuation
BasicEstimate(fd) ==
    LET userBase == parseInt(OrElse(fd.user_base, JsString("0")))
        monthlyTraffic == parseInt(OrElse(fd.traffic, JsString("0")))
        basicValuation == IF IsNum(userBase) /\ IsNum(monthlyTraffic)
                          THEN Max(userBase * 1500 + monthlyTraffic * 30, 500 * Mills)
                          ELSE NaN
    IN  [ valuation |-> IF IsNum(basicValuation) THEN RoundMills(basicValuation) ELSE NaN,
          isMaxValuation |-> FALSE,
          fallback |-> TRUE ]

UserValue(userBase) ==
    IF ~Gt(userBase, 0) THEN 0
    ELSE IF userBase >= 10000 THEN userBase * 3000
    ELSE IF userBase >= 5000 THEN userBase * 2500
    ELSE IF userBase >= 2500 THEN userBase * 2000
    ELSE IF userBase >= 1000 THEN userBase * 1500
    ELSE IF userBase >= 500 THEN userBase * 1000
    ELSE userBase * 500

TrafficValue(monthlyTraffic) ==
    IF ~Gt(monthlyTraffic, 0) THEN 0
    ELSE IF monthlyTraffic >= 100000 THEN monthlyTraffic * 80
    ELSE IF monthlyTraffic >= 50000 THEN monthlyTraffic * 60
    ELSE IF monthlyTraffic >= 20000 THEN monthlyTraffic * 50
    ELSE IF monthlyTraffic >= 8000 THEN monthlyTraffic * 30
    ELSE IF monthlyTraffic >= 3000 THEN monthlyTraffic * 20
    ELSE monthlyTraffic * 10

\* estimatedMRR = max(userBase * 0.01, 0); revenueValue = estimatedMRR * 12 * 1.2
RevenueValue(userBase) == IF Gt(userBase, 0) THEN userBase * 144 ELSE 0

\* the estimate left as it is, whatever the categories
categoryAdjusted_neutral(v, categories, marketData) == v

\* estimatedValue *= avgMultiplier over the submitted categories
categoryAdjusted(v, categories, marketData) ==
    IF Gt(Length(categories), 0)
    THEN MulDiv(v, SumCategoryMultipliers(categories.a, Len(categories.a), marketData),
                10 * Len(categories.a))
    ELSE v

\* reality checks for projects with very little traction
realityChecked(v, userBase, monthlyTraffic, tl) ==
    IF Lt(userBase, 10) /\ Lt(monthlyTraffic, 100) /\ (tl = "" \/ Len(tl) < 10)
         THEN Min(v, 200 * Mills)
    ELSE IF Lt(userBase, 50) /\ Lt(monthlyTraffic, 500)
         THEN Min(v, 1000 * Mills)
    ELSE IF Lt(userBase, 200) /\ Lt(monthlyTraffic, 2000)
         THEN Min(v, 5000 * Mills)
    ELSE v

\* penalty for high costs with low traction
costPenalised(v, userBase, monthlyCost) ==
    IF Gt(monthlyCost, 1000) /\ Lt(userBase, 50) THEN MulDiv(v, 6, 10)
    ELSE IF Gt(monthlyCost, 500) /\ Lt(userBase, 25) THEN MulDiv(v, 4, 10)
    ELSE v

\* penalty for a missing or short tagline
taglinePenalised(v, tl) ==
    IF tl = "" \/ Len(tl) < 5 THEN MulDiv(v, 5, 10)
    ELSE IF Len(tl) < 15 THEN MulDiv(v, 7, 10)
    ELSE v

\* cap for submissions that look like test data
testCapped(v, isTest) == IF isTest THEN Min(v, 300 * Mills) ELSE v

\* minimum valuations
minimumApplied(v, userBase, monthlyTraffic, tl, isTest) ==
    LET hasAnyTraction == Ge(userBase, 10) \/ Ge(monthlyTraffic, 100)
        hasValidTagline == tl # "" /\ Len(tl) >= 10 /\ ~isTest
    IN  IF v < 500 * Mills /\ hasAnyTraction /\ hasValidTagline THEN 500 * Mills
        ELSE IF v < 200 * Mills /\ (hasAnyTraction \/ hasValidTagline) THEN 200 * Mills
        ELSE IF v < 50 * Mills /\ (tl # "" \/ Gt(userBase, 0) \/ Gt(monthlyTraffic, 0))
             THEN 50 * Mills
        ELSE v

\* the fixed maximum and the rounding of the result
maxApplied(v) ==
    [ valuation |-> RoundMills(Max(0, Min(v, maxValuation * Mills))),
      isMaxValuation |-> v >= maxValuation * Mills,
      fallback |-> FALSE ]

\* the try block of getEstimatedValuation on the parsed fields; a throw in it
\* is caught and answered by the catch block
estimateFrom(fd, userBase, monthlyTraffic, monthlyCost, categories, tagline, marketData) ==
    LET \* categories.map is not a function unless categories is an array
        mapThrows == Gt(Length(categories), 0) /\ categories.k # "array"
        quality == calculateBalancedQualityMultiplier(tagline, userBase, monthlyTraffic, monthlyCost)
        isTest == SomeIncluded(testIndicators, toLowerCase(tagline.s))
    IN  IF mapThrows \/ quality.thrown
        THEN BasicEstimate(fd)
        ELSE maxApplied(
                 minimumApplied(
                     testCapped(
                         taglinePenalised(
                             costPenalised(
                                 realityChecked(
                                     TimesQuality(
                                         categoryAdjusted(
                                             UserValue(userBase) + TrafficValue(monthlyTraffic)
                                                 + RevenueValue(userBase),
                                             categories, marketData),
                                         quality.value),
                                     userBase, monthlyTraffic, tagline.s),
                                 userBase, monthlyCost),
                             tagline.s),
                         isTest),
                     userBase, monthlyTraffic, tagline.s, isTest))

getEstimatedValuation(fd, marketData) ==
    estimateFrom(fd,
                 parseInt(OrElse(fd.user_base, JsString("0"))),
                 parseInt(OrElse(fd.traffic, JsString("0"))),
                 parseInt(OrElse(fd.monthly_cost, JsString("0"))),
                 OrElse(fd.categories, JsArray(<<>>)),
                 OrElse(fd.tagline, JsString("")),
                 marketData)

(***************************************************************************)
(* Rule-based scorer (calculateMarketBasedScore)                           *)
(***************************************************************************)

userThresholds ==
    << [threshold |-> 10000, points |-> 20], [threshold |-> 5000, points |-> 18],
       [threshold |-> 2500, points |-> 16],  [threshold |-> 1000, points |-> 14],
       [threshold |-> 500, points |-> 12],   [threshold |-> 100, points |-> 10],
       [threshold |-> 50, points |-> 8],     [threshold |-> 10, points |-> 6],
       [threshold |-> 1, points |-> 4],      [threshold |-> 0, points |-> 2] >>

trafficThresholds ==
    << [threshold |-> 50000, points |-> 20], [threshold |-> 20000, points |-> 18],
       [threshold |-> 8000, points |-> 16],  [threshold |-> 3000, points |-> 14],
       [threshold |-> 1000, points |-> 12],  [threshold |-> 500, points |-> 10],
       [threshold |-> 100, points |-> 8],    [threshold |-> 50, points |-> 6],
       [threshold |-> 10, points |-> 4],     [threshold |-> 0, points |-> 2] >>

calculateBalancedTractionScore(value, thresholds) ==
    LET reached == {i \in 1..Len(thresholds) : Ge(value, thresholds[i].threshold)}
    IN  IF reached = {} THEN 0
        ELSE thresholds[CHOOSE i \in reached : \A j \in reached : i <= j].points

\* the points of a tagline tl that is neither missing nor test data
productQualityPoints(tl, taglineLower) ==
    LET valueWords == <<"helps", "enables", "automates", "simplifies", "improves",
                        "optimizes", "manages", "connects", "creates", "builds">>
        solutionWords == <<"platform", "tool", "solution", "service", "system", "app", "software">>
        modernTechWords == <<"ai", "ml", "automation", "api", "saas", "cloud", "dashboard">>
        targetMarkets == <<"businesses", "companies", "teams", "developers", "creators",
                           "entrepreneurs", "professionals">>
        specificMarkets == <<"e-commerce", "saas", "startups", "small business", "enterprise">>
    IN  8
        + (IF SomeIncluded(valueWords, taglineLower) THEN 5 ELSE 0)
        + (IF SomeIncluded(solutionWords, taglineLower) THEN 3 ELSE 0)
        + (IF SomeIncluded(modernTechWords, taglineLower) THEN 3 ELSE 0)
        + (IF SomeIncluded(targetMarkets, taglineLower) THEN 4 ELSE 0)
        + (IF SomeIncluded(specificMarkets, taglineLower) THEN 2 ELSE 0)
        + (IF Len(tl) > 15 /\ Len(tl) < 100 THEN 3 ELSE 0)
        + (IF SplitLength(tl) >= 4 THEN 2 ELSE 0)
        - (IF SplitLength(tl) < 3 THEN 2 ELSE 0)
        - (IF Len(tl) < 10 THEN 1 ELSE 0)

\* the tagline branches of evaluateBalancedProductQuality
productQualityOf(tl, taglineLower) ==
    IF SomeIncluded(testIndicators, taglineLower) THEN Returned(5)
    ELSE Returned(Min(30, Max(2, productQualityPoints(tl, taglineLower))))

\* tagline is the value of (formData.tagline || '')
evaluateBalancedProductQuality(tagline) ==
    IF ~Truthy(tagline) \/ Lt(Length(tagline), 3) THEN Returned(2)
    ELSE IF tagline.k # "string" THEN Thrown   \* tagline.toLowerCase is not a function
    ELSE productQualityOf(tagline.s, toLowerCase(tagline.s))

\* the points for finalMultiplier = (sum/10/n) * bonus, bonus = 1.0, 1.05 or 1.1
categoryPoints(sum, n) ==
    LET bonus == IF n = 1 THEN 100 ELSE IF n = 2 THEN 105 ELSE 110
        \* finalMultiplier >= b/10
        atLeast(b) == sum * bonus >= b * n * 100
    IN  IF atLeast(16) THEN 20
        ELSE IF atLeast(14) THEN 18
        ELSE IF atLeast(12) THEN 16
        ELSE IF atLeast(10) THEN 12
        ELSE IF atLeast(8) THEN 10
        ELSE IF atLeast(6) THEN 8
        ELSE 6

\* categories is the value of (formData.categories || [])
evaluateBalancedCategoryPerformance(categories, marketData) ==
    IF categories.k = "array" /\ Len(categories.a) = 0 THEN Returned(8)
    ELSE IF categories.k # "array" THEN Thrown   \* categories.map is not a function
    ELSE Returned(categoryPoints(
             SumCategoryMultipliers(categories.a, Len(categories.a), marketData),
             Len(categories.a)))

\* the efficiency taken as monthlyCost / totalTraction
evaluateBalancedEfficiency_inverted(userBase, monthlyTraffic, monthlyCost) ==
    LET above(num, den) ==
            10 * monthlyCost * den > num * TotalTraction10(userBase, monthlyTraffic)
    IN  IF Le(monthlyCost, 0) THEN 8
        ELSE IF Le(userBase, 0) /\ Le(monthlyTraffic, 0) THEN 2
        ELSE IF above(10, 1) THEN 10
        ELSE IF above(5, 1) THEN 8
        ELSE IF above(2, 1) THEN 6
        ELSE IF above(5, 10) THEN 4
        ELSE IF above(1, 10) THEN 3
        ELSE 2

evaluateBalancedEfficiency(userBase, monthlyTraffic, monthlyCost) ==
    IF Le(monthlyCost, 0) THEN 8
    ELSE IF Le(userBase, 0) /\ Le(monthlyTraffic, 0) THEN 2
    ELSE IF EfficiencyAbove(userBase, monthlyTraffic, monthlyCost, 10, 1) THEN 10
    ELSE IF EfficiencyAbove(userBase, monthlyTraffic, monthlyCost, 5, 1) THEN 8
    ELSE IF EfficiencyAbove(userBase, monthlyTraffic, monthlyCost, 2, 1) THEN 6
    ELSE IF EfficiencyAbove(userBase, monthlyTraffic, monthlyCost, 5, 10) THEN 4
    ELSE IF EfficiencyAbove(userBase, monthlyTraffic, monthlyCost, 1, 10) THEN 3
    ELSE 2

\* score -= p when cond holds
Penalised(score, cond, p) == IF cond THEN score - p ELSE score

\* the sum of the four factors on the parsed fields
factorSum(userBase, monthlyTraffic, monthlyCost, product, category) ==
    calculateBalancedTractionScore(userBase, userThresholds)
    + calculateBalancedTractionScore(monthlyTraffic, trafficThresholds)
    + product.value + category.value
    + evaluateBalancedEfficiency(userBase, monthlyTraffic, monthlyCost)

\* cap for submissions that look like test data
testScoreCapped(score, tl) ==
    IF SomeIncluded(testIndicators, toLowerCase(tl)) THEN Min(score, 15) ELSE score

\* minimum scores
minimumScoreApplied(score, userBase, monthlyTraffic, tl) ==
    IF tl # "" /\ Len(tl) > 3 THEN Max(score, 5)
    ELSE IF Gt(userBase, 0) \/ Gt(monthlyTraffic, 0) THEN Max(score, 3)
    ELSE Max(score, 1)

\* the scorer on the parsed fields
marketBasedScoreFrom(userBase, monthlyTraffic, monthlyCost, categories, tagline, marketData) ==
    LET product == evaluateBalancedProductQuality(tagline)
        category == evaluateBalancedCategoryPerformance(categories, marketData)
    IN  IF product.thrown \/ category.thrown THEN Thrown
        ELSE Returned(Min(100, Max(1,
                 minimumScoreApplied(
                     testScoreCapped(
                         Penalised(
                             Penalised(
                                 factorSum(userBase, monthlyTraffic, monthlyCost, product, category),
                                 tagline.s = "" \/ Len(tagline.s) < 5, 5),
                             userBase = 0 /\ monthlyTraffic = 0, 8),
                         tagline.s),
                     userBase, monthlyTraffic, tagline.s))))

\* the scorer with penalties of 15 and 18 and without the closing minimum-score
\* block and clamp
marketBasedScoreFrom_unclamped(userBase, monthlyTraffic, monthlyCost, categories, tagline, marketData) ==
    LET product == evaluateBalancedProductQuality(tagline)
        category == evaluateBalancedCategoryPerformance(categories, marketData)
    IN  IF product.thrown \/ category.thrown THEN Thrown
        ELSE Returned(testScoreCapped(
                 Penalised(
                     Penalised(
                         factorSum(userBase, monthlyTraffic, monthlyCost, product, category),
                         tagline.s = "" \/ Len(tagline.s) < 5, 15),
                     userBase = 0 /\ monthlyTraffic = 0, 18),
                 tagline.s))

calculateMarketBasedScore_unclamped(fd, marketData) ==
    marketBasedScoreFrom_unclamped(parseInt(OrElse(fd.user_base, JsString("0"))),
                                   parseInt(OrElse(fd.traffic, JsString("0"))),
                                   parseInt(OrElse(fd.monthly_cost, JsString("0"))),
                                   OrElse(fd.categories, JsArray(<<>>)),
                                   OrElse(fd.tagline, JsString("")),
                                   marketData)

calculateMarketBasedScore(fd, marketData) ==
    marketBasedScoreFrom(parseInt(OrElse(fd.user_base, JsString("0"))),
                         parseInt(OrElse(fd.traffic, JsString("0"))),
                         parseInt(OrElse(fd.monthly_cost, JsString("0"))),
                         OrElse(fd.categories, JsArray(<<>>)),
                         OrElse(fd.tagline, JsString("")),
                         marketData)

(***************************************************************************)
(* Scoring oracle (getSuccessScoreFromChatGPT) and the endpoint handler     *)
(***************************************************************************)

\* positions at which /Score: (\d+)/ matches
ScoreMatches(responseText) ==
    {i \in 1..Len(responseText) :
        /\ i + 6 <= Len(responseText)
        /\ SubSeq(responseText, i, i + 6) = "Score: "
        /\ DigitRun(responseText, i + 7) > 0}

interpretResponse(responseText) ==
    LET m == ScoreMatches(responseText)
        first == CHOOSE i \in m : \A j \in m : i <= j
    IN  IF m # {}
        THEN DecimalValue(SubSeq(responseText, first + 7,
                                 first + 6 + DigitRun(responseText, first + 7)))
        ELSE 50

\* orc is what the completion API does: the fetch rejects ("networkError"),
\* answers with a non-success status ("httpError"), answers 200 with a body
\* without choices ("noChoices"), or answers 200 with choices[0].text = orc.text ("ok")
getSuccessScoreFromChatGPT(fd, marketData, environment, orc) ==
    IF environment.OPENAI_API_KEY = ""
    THEN calculateMarketBasedScore(fd, marketData)   \* a throw here is rethrown by the catch block
    ELSE IF orc.kind = "ok"
    THEN Returned(interpretResponse(orc.text))
    ELSE calculateMarketBasedScore(fd, marketData)

\* Math.round(valuation * f / 10) for an integer number of dollars
RoundTenths(valuation, f) ==
    IF IsNum(valuation) THEN (valuation * f + 5) \div 10 ELSE NaN

\* what the POST handler of the valuation/score endpoint calls, in order
handlerCalls(fd, marketData, environment, orc) ==
    LET successScore == getSuccessScoreFromChatGPT(fd, marketData, environment, orc)
    IN  [ score |-> <<successScore>>,
          valuation |-> IF successScore.thrown THEN <<>>
                        ELSE <<getEstimatedValuation(fd, marketData)>>,
          request |-> <<>>, fetch |-> <<>>, marketData |-> <<>>, saved |-> <<>> ]

\* the response of the POST handler of the valuation/score endpoint
handlerResponse(c) ==
    IF c.score[1].thrown
    THEN [ endpoint |-> "successscore", method |-> "POST", status |-> 500,
           body |-> [error |-> "Internal Server Error"] ]
    ELSE [ endpoint |-> "successscore", method |-> "POST", status |-> 200,
           body |-> [ successScore |-> c.score[1].value,
                      estimatedValuation |-> c.valuation[1].valuation,
                      isMaxValuation |-> c.valuation[1].isMaxValuation,
                      valuationRange |->
                          [ low  |-> RoundTenths(c.valuation[1].valuation, 7),
                            high |-> RoundTenths(c.valuation[1].valuation, 13) ] ] ]

noCalls == [ score |-> <<>>, valuation |-> <<>>,
             request |-> <<>>, fetch |-> <<>>, marketData |-> <<>>, saved |-> <<>> ]
noResponse == [endpoint |-> "none", method |-> "", status |-> 0, body |-> [error |-> ""]]

(***************************************************************************)
(* The embedded profile the CLI script writes when it has no listings       *)
(***************************************************************************)

enhancedTopPerformers ==
    [ mainCategories |->
          << [name |-> "AI", successRate |-> 73, avgPrice |-> 9200, projects |-> 35],
             [name |-> "SaaS", successRate |-> 71, avgPrice |-> 11500, projects |-> 58],
             [name |-> "Developer Tools", successRate |-> 68, avgPrice |-> 7800, projects |-> 42],
             [name |-> "E-commerce", successRate |-> 54, avgPrice |-> 5200, projects |-> 89],
             [name |-> "Chrome Extension", successRate |-> 76, avgPrice |-> 3800, projects |-> 28] >>,
      specificCategories |->
          << [name |-> "Newsletter Tool", successRate |-> 82, avgPrice |-> 4200, projects |-> 18],
             [name |-> "Chrome Extension", successRate |-> 76, avgPrice |-> 3800, projects |-> 28],
             [name |-> "API Service", successRate |-> 72, avgPrice |-> 6800, projects |-> 22],
             [name |-> "Automation Script", successRate |-> 69, avgPrice |-> 2900, projects |-> 31],
             [name |-> "AI Tool", successRate |-> 78, avgPrice |-> 8500, projects |-> 19] >>,
      keywords |->
          << [word |-> "analytics", frequency |-> 89, avgPrice |-> 5200],
             [word |-> "automation", frequency |-> 124, avgPrice |-> 4100],
             [word |-> "dashboard", frequency |-> 76, avgPrice |-> 4800],
             [word |-> "integration", frequency |-> 67, avgPrice |-> 5900],
             [word |-> "productivity", frequency |-> 98, avgPrice |-> 3800],
             [word |-> "saas", frequency |-> 156, avgPrice |-> 7200],
             [word |-> "ai", frequency |-> 78, avgPrice |-> 6900],
             [word |-> "chrome", frequency |-> 45, avgPrice |-> 3200],
             [word |-> "api", frequency |-> 112, avgPrice |-> 4600],
             [word |-> "tool", frequency |-> 234, avgPrice |-> 4200] >> ]

getEnhancedFallbackData(t) ==
    [ lastUpdated        |-> t,
      totalProjects      |-> 847,
      soldProjects       |-> 312,
      categoryMultipliers |->
          ("SaaS" :> 16) @@ ("AI" :> 17) @@ ("E-commerce" :> 14) @@ ("Chrome Extension" :> 15) @@
          ("API" :> 14) @@ ("Automation" :> 13) @@ ("Newsletter" :> 13) @@ ("Marketplace" :> 12) @@
          ("Developer Tools" :> 15) @@ ("Webflow" :> 14) @@ ("Web3" :> 12) @@ ("Community" :> 10) @@
          ("Blog" :> 9) @@ ("Wordpress" :> 8),
      avgRevenueMultiple |-> 28,
      avgProfitMultiple  |-> 32,
      avgTrafficValue    |-> 12,
      avgCommunityValue  |-> 480,
      successPatterns    |-> [ topCategories |-> <<"SaaS", "AI", "Chrome Extension", "E-commerce", "Developer Tools">>,
                               avgSoldPrice |-> 6420,
                               avgUserBase |-> 3200,
                               avgTraffic |-> 12500 ],
      topPerformers      |-> enhancedTopPerformers ]

(***************************************************************************)
(* Listings of the marketplace and the statistics taken over them          *)
(***************************************************************************)

\* The listings the marketplace can hold.  An optional field that is absent
\* is "", <<>> or 0: the code does not tell these from an absent field.
\* For every listing 10000 * price is a multiple of users and of traffic.
\* The third listing sold at 60 per monthly visitor.
ListingPool ==
    << [ category |-> "AI", categories |-> <<"SaaS">>, listing_main_category |-> "Software",
         price |-> 25000, sold |-> TRUE, users |-> 500, traffic |-> 10000,
         title |-> "AI analytics", description |-> "Analytics for teams" ],
       [ category |-> " AI ", categories |-> <<>>, listing_main_category |-> "",
         price |-> 4000, sold |-> FALSE, users |-> 0, traffic |-> 8000,
         title |-> "Chat bot", description |-> "" ],
       [ category |-> "", categories |-> <<"Blog", " SaaS", " ">>,
         listing_main_category |-> "Content",
         price |-> 3000, sold |-> TRUE, users |-> 0, traffic |-> 50,
         title |-> "Blog theme", description |-> "Simple blog analytics" ] >>

\* the most listings the marketplace returns in one fetch
MaxListings == 5

\* the batches a fetch can return: up to MaxListings listings of the pool
ListingBatches ==
    LET picks == UNION { [1..n -> 1..Len(ListingPool)] : n \in 0..MaxListings }
        ordered == { p \in picks : \A i \in 1..(Len(p) - 1) : p[i] <= p[i + 1] }
    IN  { [i \in 1..Len(p) |-> ListingPool[p[i]]] : p \in ordered }

\* allProjects.filter(p => p.sold)
soldOf(allProjects) ==
    LET isSold(p) == p.sold
    IN  SelectSeq(allProjects, isSold)

RECURSIVE SumSeq(_, _)
\* s[1] + ... + s[n]
SumSeq(s, n) == IF n = 0 THEN 0 ELSE SumSeq(s, n - 1) + s[n]

RECURSIVE Flatten(_, _)
\* seqs[1] \o ... \o seqs[n]
Flatten(seqs, n) == IF n = 0 THEN <<>> ELSE Flatten(seqs, n - 1) \o seqs[n]

\* Math.round(sum / n) for sum >= 0, n > 0
RoundDiv(sum, n) == (2 * sum + n) \div (2 * n)

\* the names a listing is counted under by analyzeCategoryPerformance, in the
\* order it visits them, each with its weight in tenths
weightedCategories(project) ==
    LET nonBlank(c) == trim(c) # ""
        legacy == SelectSeq(project.categories, nonBlank)
    IN  (IF nonBlank(project.category)
         THEN <<[name |-> trim(project.category), weight |-> 10, price |-> project.price]>>
         ELSE <<>>)
        \o [i \in 1..Len(legacy) |->
               [name |-> trim(legacy[i]), weight |-> 8, price |-> project.price]]
        \o (IF nonBlank(project.listing_main_category)
            THEN <<[name |-> trim(project.listing_main_category), weight |-> 3,
                    price |-> project.price]>>
            ELSE <<>>)

\* the entries of all the listings of a batch, in forEach order
weightedEntries(projects) ==
    Flatten([i \in 1..Len(projects) |-> weightedCategories(projects[i])], Len(projects))

entryNames(entries) == { entries[i].name : i \in 1..Len(entries) }

\* the sum of the weights of the entries of one name
entryTotal(entries, name) ==
    SumSeq([i \in 1..Len(entries) |->
               IF entries[i].name = name THEN entries[i].weight ELSE 0], Len(entries))

\* the sum of price * weight over the entries of one name
entryPrice(entries, name) ==
    SumSeq([i \in 1..Len(entries) |->
               IF entries[i].name = name THEN entries[i].price * entries[i].weight ELSE 0],
           Len(entries))

\* the names in sorted order: by decreasing key, names of equal key in the order
\* of their first entry (Object.entries order, stable sort), cut to limit names;
\* key is a function of the names
topRanked(entries, names, key, limit) ==
    LET firstIndex(a) == CHOOSE i \in 1..Len(entries) :
                             /\ entries[i].name = a
                             /\ \A j \in 1..(i - 1) : entries[j].name # a
        before(a, b) == \/ key[a] > key[b]
                        \/ key[a] = key[b] /\ firstIndex(a) < firstIndex(b)
        rank(a) == Cardinality({b \in names : before(b, a)}) + 1
    IN  [r \in 1..Min(limit, Cardinality(names)) |-> CHOOSE a \in names : rank(a) = r]

(***************************************************************************)
(* Calibration by the market-analysis API (both variants of the file)      *)
(***************************************************************************)

\* the multiplier without the specificity bonus
categoryMultiplierOf_unspecific(total, weight, sold, priceSum) ==
    LET soldOrOne == Max(sold, 10)
        priceAdjust == IF priceSum > 20000 * soldOrOne THEN 2
                       ELSE IF priceSum > 10000 * soldOrOne THEN 1
                       ELSE IF priceSum < 5000 * soldOrOne THEN 0 - 1
                       ELSE 0
        scaled == 8 * total + 8 * sold + priceAdjust * total
    IN  RoundDiv(Max(6 * total, Min(20 * total, scaled)), total)

\* the multiplier in tenths from stats.total, stats.weight, stats.sold (tenths)
\* and stats.avgPrice (the sum of price * weight, weight in tenths)
categoryMultiplierOf(total, weight, sold, priceSum) ==
    LET soldOrOne == Max(sold, 10)               \* Math.max(stats.sold, 1)
        priceAdjust == IF priceSum > 20000 * soldOrOne THEN 2
                       ELSE IF priceSum > 10000 * soldOrOne THEN 1
                       ELSE IF priceSum < 5000 * soldOrOne THEN 0 - 1
                       ELSE 0
        \* total * multiplier: 0.8 + successRate * 0.8 + min(weight / total, 1) * 0.2
        scaled == 8 * total + 8 * sold + 2 * Min(weight, total) + priceAdjust * total
        bounded == Max(6 * total, Min(20 * total, scaled))
    IN  RoundDiv(bounded, total)

\* addCategory adds the same amount to stats.total and to stats.weight
multipliersOf(all, sold) ==
    [ c \in { n \in entryNames(all) : entryTotal(all, n) >= 30 } |->
        categoryMultiplierOf(entryTotal(all, c), entryTotal(all, c),
                             entryTotal(sold, c), entryPrice(sold, c)) ]

analyzeCategoryPerformance(allProjects, soldProjects) ==
    multipliersOf(weightedEntries(allProjects), weightedEntries(soldProjects))

\* Math.round(avg * 100) for the average of price / n over the pairs with n > 0,
\* dflt when there is none
pricePerUnit(pairs, dflt) ==
    LET positive(p) == p.n > 0
        known == SelectSeq(pairs, positive)
        sum == SumSeq([i \in 1..Len(known) |-> (known[i].price * 10000) \div known[i].n],
                      Len(known))
    IN  IF Len(known) = 0 THEN dflt ELSE RoundDiv(sum, 100 * Len(known))

trafficPairs(projects) ==
    [i \in 1..Len(projects) |-> [price |-> projects[i].price, n |-> projects[i].traffic]]

userPairs(projects) ==
    [i \in 1..Len(projects) |-> [price |-> projects[i].price, n |-> projects[i].users]]

\* multiples in tenths, values in hundredths
calculateMarketMetrics(soldProjects) ==
    IF Len(soldProjects) = 0
    THEN [ avgRevenueMultiple |-> 25, avgProfitMultiple |-> 30,
           avgTrafficValue |-> 10, avgCommunityValue |-> 500 ]
    ELSE [ avgRevenueMultiple |-> 25, avgProfitMultiple |-> 30,
           avgTrafficValue |-> pricePerUnit(trafficPairs(soldProjects), 10),
           avgCommunityValue |-> pricePerUnit(userPairs(soldProjects), 500) ]

\* Math.round of the average of the values that are not 0, dflt when there is none
roundedMean(values, dflt) ==
    LET nonZero(v) == v # 0
        known == SelectSeq(values, nonZero)
    IN  IF Len(known) = 0 THEN dflt ELSE RoundDiv(SumSeq(known, Len(known)), Len(known))

weightedTopCategories(entries, limit) ==
    LET count == [c \in entryNames(entries) |-> entryTotal(entries, c)]
    IN  topRanked(entries, entryNames(entries), count, limit)

identifySuccessPatterns(soldProjects) ==
    IF Len(soldProjects) = 0
    THEN [ topCategories |-> <<"SaaS", "AI", "E-commerce">>,
           avgSoldPrice |-> 15000, avgUserBase |-> 2500, avgTraffic |-> 8000 ]
    ELSE [ topCategories |-> weightedTopCategories(weightedEntries(soldProjects), 10),
           avgSoldPrice |-> RoundDiv(SumSeq([i \in 1..Len(soldProjects) |-> soldProjects[i].price],
                                            Len(soldProjects)), Len(soldProjects)),
           avgUserBase |-> roundedMean([i \in 1..Len(soldProjects) |-> soldProjects[i].users], 2500),
           avgTraffic |-> roundedMean([i \in 1..Len(soldProjects) |-> soldProjects[i].traffic], 8000) ]

(***************************************************************************)
(* Top performers (the protected variant of the market-analysis API)       *)
(***************************************************************************)

mainCategoryTerms ==
    <<"SaaS", "AI", "E-commerce", "Marketplace", "Social", "Analytics", "Productivity",
      "Communication", "Education", "Gaming", "Health", "Finance">>

\* the names analyzeTopPerformers counts a listing under, once each
listedCategories(project) ==
    LET nonBlank(c) == trim(c) # ""
        named == SelectSeq(<<project.category, project.listing_main_category>>
                           \o project.categories, nonBlank)
    IN  [i \in 1..Len(named) |-> [name |-> trim(named[i]), weight |-> 1, price |-> project.price]]

listedEntries(projects) ==
    Flatten([i \in 1..Len(projects) |-> listedCategories(projects[i])], Len(projects))

isMainCategory(cat) ==
    \E i \in 1..Len(mainCategoryTerms) :
        Includes(toLowerCase(cat), toLowerCase(mainCategoryTerms[i]))

\* one row of processCategories; successRate in hundredths
categoryRow(name, total, sold, totalPrice) ==
    [ name |-> name,
      successRate |-> RoundDiv(100 * sold, total),
      avgPrice |-> RoundDiv(totalPrice, Max(sold, 1)),
      projects |-> total ]

processCategories(all, sold, isMain) ==
    LET names == { c \in entryNames(all) : isMainCategory(c) = isMain /\ entryTotal(all, c) >= 3 }
        row(c) == categoryRow(c, entryTotal(all, c), entryTotal(sold, c), entryPrice(sold, c))
        key == [c \in names |-> row(c).successRate * row(c).avgPrice]
        ranked == topRanked(all, names, key, 5)
    IN  [r \in 1..Len(ranked) |-> row(ranked[r])]

\* length of the longest run of characters of the set chars starting at position i of s
RECURSIVE CharRun(_, _, _)
CharRun(s, i, chars) ==
    IF i <= Len(s) /\ SubSeq(s, i, i) \in chars THEN 1 + CharRun(s, i + 1, chars) ELSE 0

\* text.match(/\b[a-z]{3,}\b/g) || []: the maximal runs of word characters that
\* consist of three or more lower-case letters, in the order they occur
wordsOf(text) ==
    LET letters == { LowerChars[i] : i \in 1..26 }
        wordChars == letters \cup { UpperChars[i] : i \in 1..26 }
                             \cup { Digits[i] : i \in 1..10 } \cup {"_"}
        starts == { i \in 1..Len(text) :
                      /\ SubSeq(text, i, i) \in wordChars
                      /\ (i = 1 \/ SubSeq(text, i - 1, i - 1) \notin wordChars) }
        found == { i \in starts : /\ CharRun(text, i, letters) >= 3
                                  /\ CharRun(text, i, letters) = CharRun(text, i, wordChars) }
        nth(r) == CHOOSE i \in found : Cardinality({j \in found : j < i}) = r - 1
    IN  [r \in 1..Cardinality(found) |-> SubSeq(text, nth(r), nth(r) + CharRun(text, nth(r), letters) - 1)]

\* the words of the title and description of a sold listing, once per occurrence
keywordsOf(project) ==
    LET words == wordsOf(toLowerCase(project.title \o " " \o project.description))
    IN  [i \in 1..Len(words) |-> [name |-> words[i], weight |-> 1, price |-> project.price]]

topKeywords(entries) ==
    LET names == { w \in entryNames(entries) : entryTotal(entries, w) >= 5 }
        row(w) == [ word |-> w, frequency |-> entryTotal(entries, w),
                    avgPrice |-> RoundDiv(entryPrice(entries, w), entryTotal(entries, w)) ]
        key == [w \in names |-> row(w).frequency * row(w).avgPrice]
        ranked == topRanked(entries, names, key, 10)
    IN  [r \in 1..Len(ranked) |-> row(ranked[r])]

analyzeTopPerformers(allProjects, soldProjects) ==
    [ mainCategories |-> processCategories(listedEntries(allProjects),
                                           listedEntries(soldProjects), TRUE),
      specificCategories |-> processCategories(listedEntries(allProjects),
                                               listedEntries(soldProjects), FALSE),
      keywords |-> topKeywords(Flatten([i \in 1..Len(soldProjects) |-> keywordsOf(soldProjects[i])],
                                       Len(soldProjects))) ]

(***************************************************************************)
(* The market-analysis API: default profiles, recompute, store access      *)
(***************************************************************************)

\* getDefaultMarketData of pages/api/market-analysis/index.ts
getDefaultMarketData_analysis(t) ==
    [ lastUpdated        |-> t,
      totalProjects      |-> 0,
      soldProjects       |-> 0,
      categoryMultipliers |->
          ("SaaS" :> 15) @@ ("AI" :> 16) @@ ("E-commerce" :> 14) @@ ("Webflow" :> 14) @@
          ("Chrome Extension" :> 13) @@ ("API" :> 13) @@ ("Automation" :> 13) @@
          ("Marketplace" :> 12) @@ ("Newsletter" :> 12) @@ ("Web3" :> 12) @@
          ("Community" :> 10) @@ ("Blog" :> 9),
      avgRevenueMultiple |-> 25,
      avgProfitMultiple  |-> 30,
      avgTrafficValue    |-> 10,
      avgCommunityValue  |-> 500,
      successPatterns    |-> [ topCategories |-> <<"SaaS", "AI", "E-commerce">>,
                               avgSoldPrice |-> 15000,
                               avgUserBase |-> 2500,
                               avgTraffic |-> 8000 ] ]

defaultTopPerformers ==
    [ mainCategories |->
          << [name |-> "SaaS", successRate |-> 68, avgPrice |-> 8500, projects |-> 42],
             [name |-> "AI", successRate |-> 71, avgPrice |-> 7200, projects |-> 28],
             [name |-> "Developer Tools", successRate |-> 64, avgPrice |-> 6800, projects |-> 35],
             [name |-> "E-commerce", successRate |-> 52, avgPrice |-> 4500, projects |-> 67] >>,
      specificCategories |->
          << [name |-> "Newsletter Tool", successRate |-> 78, avgPrice |-> 3200, projects |-> 12],
             [name |-> "Chrome Extension", successRate |-> 72, avgPrice |-> 2800, projects |-> 18],
             [name |-> "API Service", successRate |-> 69, avgPrice |-> 5500, projects |-> 15],
             [name |-> "Automation Script", successRate |-> 65, avgPrice |-> 2100, projects |-> 21] >>,
      keywords |->
          << [word |-> "analytics", frequency |-> 67, avgPrice |-> 4800],
             [word |-> "automation", frequency |-> 89, avgPrice |-> 3600],
             [word |-> "dashboard", frequency |-> 54, avgPrice |-> 4200],
             [word |-> "integration", frequency |-> 43, avgPrice |-> 5100],
             [word |-> "productivity", frequency |-> 76, avgPrice |-> 3400] >> ]

\* getDefaultMarketData of the protected variant
getDefaultMarketData_protected(t) ==
    [ getDefaultMarketData_analysis(t) EXCEPT !.successPatterns.avgSoldPrice = 4800 ]
    @@ [ topPerformers |-> defaultTopPerformers ]

\* JSON.parse of the stored file, whichever program wrote it
loadMarketData_analysis(st, t) ==
    IF Len(st) > 0 THEN st[1] ELSE getDefaultMarketData_analysis(t)

loadMarketData_protected(st, t) ==
    IF Len(st) > 0 THEN st[1] ELSE getDefaultMarketData_protected(t)

\* fetchLittleExitsProjects of the API: [] when the fetch fails; the request
\* asks for 1000 listings, more than the marketplace of the model holds
fetchLittleExitsProjects(reachable, listings) == IF reachable THEN listings ELSE <<>>

\* analyzeMarketData after the fetch
analyzeMarketData(allProjects, t) ==
    [ lastUpdated |-> t,
      totalProjects |-> Len(allProjects),
      soldProjects |-> Len(soldOf(allProjects)),
      categoryMultipliers |-> analyzeCategoryPerformance(allProjects, soldOf(allProjects)),
      successPatterns |-> identifySuccessPatterns(soldOf(allProjects)) ]
    @@ calculateMarketMetrics(soldOf(allProjects))

analyzeMarketData_protected(allProjects, t) ==
    analyzeMarketData(allProjects, t)
    @@ [ topPerformers |-> analyzeTopPerformers(allProjects, soldOf(allProjects)) ]

\* saveMarketData: the write may fail, the error is logged and swallowed
saveMarketData(st, data, writable) == IF writable THEN <<data>> ELSE st

(***************************************************************************)
(* Calibration by the CLI script (scripts/update-market-data.js)           *)
(***************************************************************************)

\* project.category || project.listing_main_category || 'Other', counted once
scriptEntries(projects) ==
    [i \in 1..Len(projects) |->
        [ name |-> IF projects[i].category # "" THEN projects[i].category
                   ELSE IF projects[i].listing_main_category # ""
                        THEN projects[i].listing_main_category
                   ELSE "Other",
          weight |-> 1, price |-> projects[i].price ]]

\* the multiplier in tenths from stats.total, stats.sold and stats.totalPrice
scriptMultiplierOf(total, sold, totalPrice) ==
    LET soldOrOne == Max(sold, 1)
        priceAdjust == IF totalPrice > 10000 * soldOrOne THEN 2
                       ELSE IF totalPrice > 5000 * soldOrOne THEN 1
                       ELSE 0
    IN  RoundDiv(8 * total + 8 * sold + priceAdjust * total, total)

scriptMultipliersOf(all, sold) ==
    [ c \in { n \in entryNames(all) : entryTotal(all, n) >= 5 } |->
        scriptMultiplierOf(entryTotal(all, c), entryTotal(sold, c), entryPrice(sold, c)) ]

generateCategoryMultipliers(allProjects, soldProjects) ==
    scriptMultipliersOf(scriptEntries(allProjects), scriptEntries(soldProjects))

generateSuccessPatterns(soldProjects) ==
    IF Len(soldProjects) = 0
    THEN [ topCategories |-> <<"SaaS", "AI", "Chrome Extension", "E-commerce", "Developer Tools">>,
           avgSoldPrice |-> 6420, avgUserBase |-> 3200, avgTraffic |-> 12500 ]
    ELSE [ topCategories |-> weightedTopCategories(scriptEntries(soldProjects), 5),
           avgSoldPrice |-> RoundDiv(SumSeq([i \in 1..Len(soldProjects) |-> soldProjects[i].price],
                                            Len(soldProjects)), Len(soldProjects)),
           avgUserBase |-> 3200, avgTraffic |-> 12500 ]

\* generateTopPerformers returns fixed rows
generateTopPerformers ==
    [ enhancedTopPerformers EXCEPT !.keywords = SubSeq(enhancedTopPerformers.keywords, 1, 5) ]

\* the profile the script builds from a fetched batch that is not empty
scriptMarketData(allProjects, t) ==
    [ lastUpdated |-> t,
      totalProjects |-> Len(allProjects),
      soldProjects |-> Len(soldOf(allProjects)),
      categoryMultipliers |-> generateCategoryMultipliers(allProjects, soldOf(allProjects)),
      avgRevenueMultiple |-> 28,
      avgProfitMultiple |-> 32,
      avgTrafficValue |-> pricePerUnit(trafficPairs(soldOf(allProjects)), 12),
      avgCommunityValue |-> pricePerUnit(userPairs(soldOf(allProjects)), 480),
      successPatterns |-> generateSuccessPatterns(soldOf(allProjects)),
      topPerformers |-> generateTopPerformers ]

\* fetched is <<>> when fetchLittleExitsProjects returned null (no credentials,
\* or the fetch failed), <<batch>> when it returned a batch
updateMarketData_profile(fetched, t) ==
    IF Len(fetched) > 0 /\ Len(fetched[1]) > 0
    THEN scriptMarketData(fetched[1], t)
    ELSE getEnhancedFallbackData(t)

(***************************************************************************)
(* Requests to the valuation/score endpoint                                *)
(***************************************************************************)

UserBaseInputs ==
    { Undefined, JsString("abc"), JsString("5"), JsString("150"), JsString("3000"),
      JsString("10000"), JsNumber(100000) }

TrafficInputs ==
    { Undefined, JsString("n/a"), JsString("50"), JsString("1500"), JsString("9000"),
      JsNumber(100000) }

MonthlyCostInputs == { Undefined, JsString("100"), JsString("2000") }

TaglineInputs ==
    { Undefined, JsString("hi"), JsString("test app"), JsString("Simple notes"),
      JsString("AI tool for teams"),
      JsString("Helps businesses automate invoices with AI"),
      JsNumber(12345) }

CategoriesInputs ==
    { Undefined, JsArray(<<>>), JsArray(<<"AI">>), JsArray(<<"Blog">>),
      JsArray(<<"Social Media">>), JsArray(<<"AI", "SaaS">>),
      JsArray(<<"ml tools", "Gaming", "Blog">>), JsString("AI"), JsNumber(7) }

Submissions ==
    [ user_base : UserBaseInputs, traffic : TrafficInputs, monthly_cost : MonthlyCostInputs,
      tagline : TaglineInputs, categories : CategoriesInputs ]

\* the submissions that are also served with the oracle configured
OracleSubmissions ==
    [ user_base : {Undefined, JsString("abc"), JsString("150"), JsNumber(100000)},
      traffic : {Undefined, JsString("1500")},
      monthly_cost : {Undefined},
      tagline : TaglineInputs, categories : CategoriesInputs ]

OracleBehaviours ==
    { [kind |-> "networkError", text |-> ""],
      [kind |-> "httpError", text |-> ""],
      [kind |-> "noChoices", text |-> ""],
      [kind |-> "ok", text |-> "Score: 85"],
      [kind |-> "ok", text |-> "Score: 0"],
      [kind |-> "ok", text |-> "Final Score: 150/100"],
      [kind |-> "ok", text |-> "This startup looks promising."] }

noEnv  == [CRON_SECRET |-> "", OPENAI_API_KEY |-> ""]

\* without a key the oracle is never called; with a key it does any of its behaviours
RequestCases ==
    { [fd |-> f, e |-> noEnv, o |-> [kind |-> "networkError", text |-> ""]] : f \in Submissions }
    \cup { [fd |-> c[1], e |-> [noEnv EXCEPT !.OPENAI_API_KEY = "sk-key"], o |-> c[2]] : c \in OracleSubmissions \X OracleBehaviours }

InitScore ==
    /\ writer = <<>>
    /\ pager = <<>>
    /\ store \in { <<>>, <<getEnhancedFallbackData(0)>> }
    /\ now = 0
    /\ source = <<>>
    /\ \E c \in RequestCases : formData = c.fd /\ env = c.e /\ oracle = c.o
    /\ calls = noCalls
    /\ resp = noResponse

\* POST to the valuation/score endpoint
ScoreRequest ==
    /\ resp = noResponse
    /\ LET c == handlerCalls(formData, loadMarketData_score(store, now), env, oracle)
       IN  /\ calls' = c
           /\ resp' = handlerResponse(c)
    /\ UNCHANGED <<store, now, source, env, formData, oracle, writer, pager>>

SpecScore == InitScore /\ [][ScoreRequest]_vars

(***************************************************************************)
(* Two submissions to the valuation/score endpoint that differ in one      *)
(* field, served by the rule-based scorer against one profile              *)
(***************************************************************************)

\* the thresholds of the tier tables for user_base and traffic, as the form
\* sends them
UserBaseLevels ==
    { JsString(u) : u \in {"0", "1", "10", "50", "100", "500", "1000", "2500", "5000", "10000"} }

TrafficLevels ==
    { JsString(t) : t \in {"0", "10", "50", "100", "500", "1000", "3000", "8000", "20000",
                           "50000", "100000"} }

ComparedSubmissions ==
    [ user_base : UserBaseLevels,
      traffic : TrafficLevels,
      monthly_cost : { Undefined, JsString("100"), JsString("2000") },
      tagline : { Undefined, JsString("test app"), JsString("Simple notes"),
                  JsString("AI platform for businesses") },
      categories : { JsArray(<<"AI">>), JsArray(<<"Blog">>) } ]

\* the submissions that differ from fd in one field: more users, more traffic,
\* or the category Blog in place of AI
Variants(fd) ==
    { [fd EXCEPT !.user_base = u] :
          u \in { l \in UserBaseLevels : parseInt(l) > parseInt(fd.user_base) } }
    \cup { [fd EXCEPT !.traffic = t] :
              t \in { l \in TrafficLevels : parseInt(l) > parseInt(fd.traffic) } }
    \cup (IF fd.categories = JsArray(<<"AI">>)
          THEN { [fd EXCEPT !.categories = JsArray(<<"Blog">>)] }
          ELSE {})

\* the stored profile has AI 1.6 and Blog 0.9
InitCompare ==
    /\ writer = <<>>
    /\ pager = <<>>
    /\ store = <<getDefaultMarketData_analysis(0)>>
    /\ now = 0
    /\ source = <<>>
    /\ env = noEnv
    /\ oracle = [kind |-> "networkError", text |-> ""]
    /\ formData \in ComparedSubmissions
    /\ calls = noCalls
    /\ resp = noResponse

\* POST of the submission
SubmitFirst ==
    /\ calls = noCalls
    /\ LET c == handlerCalls(formData, loadMarketData_score(store, now), env, oracle)
       IN  /\ calls' = [c EXCEPT !.request = <<formData>>]
           /\ resp' = handlerResponse(c)
    /\ UNCHANGED <<store, now, source, env, formData, oracle, writer, pager>>

\* POST of a submission that differs from the first in one field
SubmitVariant ==
    /\ Len(calls.request) = 1
    /\ \E fd \in Variants(formData) :
           LET c == handlerCalls(fd, loadMarketData_score(store, now), env, oracle)
           IN  /\ calls' = [calls EXCEPT !.request = @ \o <<fd>>,
                                         !.score = @ \o c.score,
                                         !.valuation = @ \o c.valuation]
               /\ resp' = handlerResponse(c)
    /\ UNCHANGED <<store, now, source, env, formData, oracle, writer, pager>>

SpecCompare == InitCompare /\ [][SubmitFirst \/ SubmitVariant]_vars

(***************************************************************************)
(* The system: the store, the clock, the marketplace and the programs      *)
(* that read and write the store                                           *)
(***************************************************************************)

\* the last instant of the clock
MaxTime == 1

\* the secret of the deployment, when one is configured
Secrets == {"", "s3cret"}

\* the Authorization header of a request; "" is a request without the header
AuthHeaders == {"", "Bearer s3cret", "Bearer wrong", "Bearer missing-secret"}

emptySubmission ==
    [ user_base |-> Undefined, traffic |-> Undefined, monthly_cost |-> Undefined,
      tagline |-> Undefined, categories |-> Undefined ]

Init ==
    /\ writer = <<>>
    /\ pager = <<>>
    /\ store = <<>>
    /\ now = 0
    /\ source \in ListingBatches
    /\ \E secret \in Secrets : env = [CRON_SECRET |-> secret, OPENAI_API_KEY |-> ""]
    /\ formData = emptySubmission
    /\ oracle = [kind |-> "networkError", text |-> ""]
    /\ calls = noCalls
    /\ resp = noResponse

Tick ==
    /\ now < MaxTime
    /\ now' = now + 1
    /\ UNCHANGED <<store, source, env, formData, oracle, calls, resp, writer, pager>>

\* GET /api/market-analysis, pages/api/market-analysis/index.ts
MarketAnalysisGet ==
    /\ calls' = [noCalls EXCEPT !.request = <<[authorization |-> ""]>>]
    /\ resp' = [ endpoint |-> "market-analysis", method |-> "GET", status |-> 200,
                 body |-> loadMarketData_analysis(store, now) ]
    /\ UNCHANGED <<store, now, source, env, formData, oracle, writer, pager>>

\* the fields of the stored profile the protected variant answers a GET with
safeData(marketData) ==
    [ lastUpdated |-> marketData.lastUpdated,
      categoryMultipliers |-> marketData.categoryMultipliers,
      avgRevenueMultiple |-> marketData.avgRevenueMultiple,
      avgProfitMultiple |-> marketData.avgProfitMultiple,
      avgTrafficValue |-> marketData.avgTrafficValue,
      avgCommunityValue |-> marketData.avgCommunityValue ]

\* GET /api/market-analysis, protected variant
MarketAnalysisGetProtected ==
    /\ calls' = [noCalls EXCEPT !.request = <<[authorization |-> ""]>>]
    /\ resp' = [ endpoint |-> "market-analysis-protected", method |-> "GET", status |-> 200,
                 body |-> safeData(loadMarketData_protected(store, now)) ]
    /\ UNCHANGED <<store, now, source, env, formData, oracle, writer, pager>>

\* The profile each program computes from each batch, with lastUpdated 0.  The
\* table is evaluated once; a recompute at instant t takes the profile of the
\* batch it fetched from the table and stamps it with t.
calibrations ==
    [ b \in ListingBatches |->
        [ analysis  |-> analyzeMarketData(b, 0),
          protected |-> analyzeMarketData_protected(b, 0),
          script    |-> updateMarketData_profile(<<b>>, 0) ] ]

\* lastUpdated: new Date().toISOString()
stamped(marketData, t) == [marketData EXCEPT !.lastUpdated = t]

\* a recompute that adds the counts of the stored profile to the new ones
recompute_accumulating(allProjects, marketData, st, writable) ==
    LET merged == IF Len(st) = 0 THEN marketData
                  ELSE [marketData EXCEPT !.totalProjects = @ + st[1].totalProjects]
    IN  [ calls |-> [ noCalls EXCEPT !.fetch = <<allProjects>>, !.marketData = <<merged>>,
                                     !.saved = IF writable THEN <<merged>> ELSE <<>> ],
          store |-> IF writable THEN <<merged>> ELSE st ]

\* what a recompute by the API does with the batch it fetched
recompute(allProjects, marketData, st, writable) ==
    [ calls |-> [ noCalls EXCEPT !.fetch = <<allProjects>>, !.marketData = <<marketData>>,
                                 !.saved = IF writable THEN <<marketData>> ELSE <<>> ],
      store |-> saveMarketData(st, marketData, writable) ]

\* POST /api/market-analysis, pages/api/market-analysis/index.ts; the handler
\* does not read the headers of the request
MarketAnalysisPost(reachable, writable) ==
    LET allProjects == fetchLittleExitsProjects(reachable, source)
        done == recompute(allProjects, stamped(calibrations[allProjects].analysis, now),
                          store, writable)
    IN  /\ store' = done.store
        /\ calls' = [done.calls EXCEPT !.request = <<[authorization |-> ""]>>]
        /\ resp' = [ endpoint |-> "market-analysis", method |-> "POST", status |-> 200,
                     body |-> [ message |-> "Market data updated successfully",
                                data |-> done.calls.marketData[1] ] ]
        /\ UNCHANGED <<now, source, env, formData, oracle, writer, pager>>

\* `Bearer ${process.env.CRON_SECRET || 'missing-secret'}`
expectedAuth(environment) ==
    "Bearer " \o (IF environment.CRON_SECRET # "" THEN environment.CRON_SECRET
                  ELSE "missing-secret")

summaryOf(marketData) ==
    [ totalProjects |-> marketData.totalProjects,
      soldProjects |-> marketData.soldProjects,
      categoriesAnalyzed |-> Cardinality(DOMAIN marketData.categoryMultipliers),
      lastUpdated |-> marketData.lastUpdated ]

\* POST /api/market-analysis, protected variant
MarketAnalysisPostProtected(authHeader, reachable, writable) ==
    LET allProjects == fetchLittleExitsProjects(reachable, source)
        done == recompute(allProjects, stamped(calibrations[allProjects].protected, now),
                          store, writable)
    IN  IF authHeader # expectedAuth(env)
        THEN /\ calls' = [noCalls EXCEPT !.request = <<[authorization |-> authHeader]>>]
             /\ resp' = [ endpoint |-> "market-analysis-protected", method |-> "POST",
                          status |-> 401, body |-> [error |-> "Unauthorized"] ]
             /\ UNCHANGED <<store, now, source, env, formData, oracle, writer, pager>>
        ELSE /\ store' = done.store
             /\ calls' = [done.calls EXCEPT !.request = <<[authorization |-> authHeader]>>]
             /\ resp' = [ endpoint |-> "market-analysis-protected", method |-> "POST",
                          status |-> 200,
                          body |-> [ message |-> "Market data updated successfully",
                                     summary |-> summaryOf(done.calls.marketData[1]) ] ]
             /\ UNCHANGED <<now, source, env, formData, oracle, writer, pager>>

\* node scripts/update-market-data.js: a failed write ends the process with code 1
UpdateMarketData(fetchable, writable) ==
    LET fetched == IF fetchable THEN <<source>> ELSE <<>>
        marketData == IF fetchable THEN stamped(calibrations[source].script, now)
                      ELSE updateMarketData_profile(<<>>, now)
    IN  /\ store' = IF writable THEN <<marketData>> ELSE store
        /\ calls' = [ noCalls EXCEPT !.request = <<[authorization |-> ""]>>,
                                     !.fetch = fetched, !.marketData = <<marketData>>,
                                     !.saved = IF writable THEN <<marketData>> ELSE <<>> ]
        /\ resp' = [ endpoint |-> "update-market-data", method |-> "run",
                     status |-> IF writable THEN 0 ELSE 1, body |-> [error |-> ""] ]
        /\ UNCHANGED <<now, source, env, formData, oracle, writer, pager>>

\* POST /api/cron/update-market-data: the handler checks its own Authorization
\* header, then posts to /api/market-analysis with a Content-Type header only;
\* protected tells which variant of that endpoint is deployed
CronUpdateMarketData(authHeader, protected, reachable, writable) ==
    LET secret == IF env.CRON_SECRET # "" THEN env.CRON_SECRET ELSE "undefined"
        allProjects == fetchLittleExitsProjects(reachable, source)
        done == recompute(allProjects, stamped(calibrations[allProjects].analysis, now),
                          store, writable)
        answer(status, body) == [ endpoint |-> "cron/update-market-data", method |-> "POST",
                                  status |-> status, body |-> body ]
    IN  IF authHeader # "Bearer " \o secret
        THEN /\ calls' = [noCalls EXCEPT !.request = <<[authorization |-> authHeader]>>]
             /\ resp' = answer(401, [error |-> "Unauthorized"])
             /\ UNCHANGED <<store, now, source, env, formData, oracle, writer, pager>>
        ELSE IF protected           \* "" # expectedAuth(env): updateResponse.ok is false
        THEN /\ calls' = [noCalls EXCEPT !.request = <<[authorization |-> authHeader]>>]
             /\ resp' = answer(500, [error |-> "Failed to update market data"])
             /\ UNCHANGED <<store, now, source, env, formData, oracle, writer, pager>>
        ELSE /\ store' = done.store
             /\ calls' = [done.calls EXCEPT !.request = <<[authorization |-> authHeader]>>]
             /\ resp' = answer(200, [ message |-> "Market data updated successfully",
                                      stats |-> summaryOf(done.calls.marketData[1]) ])
             /\ UNCHANGED <<now, source, env, formData, oracle, writer, pager>>

\* GET /api/top-performers: JSON.stringify leaves out topPerformers when the
\* stored profile has none
TopPerformersGet ==
    /\ calls' = [noCalls EXCEPT !.request = <<[authorization |-> ""]>>]
    /\ resp' = [ endpoint |-> "top-performers", method |-> "GET", status |-> 200,
                 body |-> IF Len(store) = 0
                          THEN [topPerformers |-> defaultTopPerformers, lastUpdated |-> now]
                          ELSE IF "topPerformers" \in DOMAIN store[1]
                          THEN [ topPerformers |-> store[1].topPerformers,
                                 lastUpdated |-> store[1].lastUpdated ]
                          ELSE [lastUpdated |-> store[1].lastUpdated] ]
    /\ UNCHANGED <<store, now, source, env, formData, oracle, writer, pager>>

Next ==
    \/ Tick
    \/ MarketAnalysisGet
    \/ MarketAnalysisGetProtected
    \/ \E reachable \in BOOLEAN, writable \in BOOLEAN : MarketAnalysisPost(reachable, writable)
    \/ \E h \in AuthHeaders, reachable \in BOOLEAN, writable \in BOOLEAN :
           MarketAnalysisPostProtected(h, reachable, writable)
    \/ \E fetchable \in BOOLEAN, writable \in BOOLEAN : UpdateMarketData(fetchable, writable)
    \/ \E h \in AuthHeaders, protected \in BOOLEAN, reachable \in BOOLEAN, writable \in BOOLEAN :
           CronUpdateMarketData(h, protected, reachable, writable)
    \/ TopPerformersGet

Spec == Init /\ [][Next]_vars

(***************************************************************************)
(* The pagination loops over GET /tinyproject                              *)
(***************************************************************************)

\* the loops and what each fixes: the page-count limit, the count it asks for,
\* whether the cursor moves by that count or by the results received, and
\* whether a page shorter than the count ends the loop
paginationLoops ==
    [ testLittleexits        |-> [ maxPages |-> 10, pageSize |-> 100,
                                   cursorByPageSize |-> TRUE, stopsOnShortPage |-> TRUE ],
      analyzeSuccessPatterns |-> [ maxPages |-> 20, pageSize |-> 100,
                                   cursorByPageSize |-> FALSE, stopsOnShortPage |-> FALSE ],
      fetchAllData           |-> [ maxPages |-> 20, pageSize |-> 100,
                                   cursorByPageSize |-> FALSE, stopsOnShortPage |-> FALSE ] ]

\* what the marketplace may answer a page request with: a status that is not
\* ok, a body without response.results, or a page of some length with some
\* remaining count (an absent count reads as 0)
PageResponses ==
    { [ok |-> FALSE, hasResults |-> FALSE, length |-> 0, remaining |-> 0],
      [ok |-> TRUE,  hasResults |-> FALSE, length |-> 0, remaining |-> 0] }
    \cup [ ok : {TRUE}, hasResults : {TRUE}, length : {0, 50, 100}, remaining : {0, 500} ]

\* a loop that goes on for as long as the source reports more
whileContinues_unlimited(p) == p.hasMore

\* while (hasMore && pageCount < maxPages)
whileContinues(p) == p.hasMore /\ p.pageCount < paginationLoops[p.loop].maxPages

InitFetch ==
    /\ store = <<>>
    /\ now = 0
    /\ source = <<>>
    /\ env = noEnv
    /\ oracle = [kind |-> "networkError", text |-> ""]
    /\ formData = emptySubmission
    /\ calls = noCalls
    /\ resp = noResponse
    /\ writer = <<>>
    /\ \E loop \in DOMAIN paginationLoops :
           pager = [ loop |-> loop, cursor |-> 0, hasMore |-> TRUE, pageCount |-> 0,
                     requests |-> 0, last |-> <<>>, phase |-> "running" ]

\* one evaluation of the loop condition and, when it holds, one iteration: the
\* page request, the answer of the marketplace and the update of the locals
FetchPage ==
    /\ pager.phase = "running"
    /\ IF ~whileContinues(pager)
       THEN pager' = [pager EXCEPT !.phase = "done"]
       ELSE \E r \in PageResponses :
                LET loop == paginationLoops[pager.loop]
                    asked == [pager EXCEPT !.requests = @ + 1, !.last = <<r>>]
                IN  pager' =
                        IF ~r.ok THEN [asked EXCEPT !.phase = "failed"]
                        ELSE IF ~r.hasResults THEN [asked EXCEPT !.hasMore = FALSE]
                        ELSE [asked EXCEPT
                                !.cursor = @ + (IF loop.cursorByPageSize THEN loop.pageSize
                                                ELSE r.length),
                                !.pageCount = @ + 1,
                                !.hasMore = /\ r.remaining > 0 /\ r.length > 0
                                            /\ ~(loop.stopsOnShortPage /\ r.length < loop.pageSize)]
    /\ UNCHANGED <<store, now, source, env, formData, oracle, calls, resp, writer>>

\* the loop runs in one async function: each await resumes it
SpecFetch == InitFetch /\ [][FetchPage]_vars /\ WF_vars(FetchPage)

(***************************************************************************)
(* A recompute by the API while another process of the deployment reads    *)
(* the store                                                               *)
(***************************************************************************)

\* the store holds the profile of an earlier recompute
InitOverlap ==
    /\ \E b \in ListingBatches : store = <<calibrations[b].analysis>>
    /\ now = MaxTime
    /\ source \in ListingBatches
    /\ env = noEnv
    /\ oracle = [kind |-> "networkError", text |-> ""]
    /\ formData = emptySubmission
    /\ calls = noCalls
    /\ resp = noResponse
    /\ writer = <<>>
    /\ pager = <<>>

\* POST /api/market-analysis up to the open of fs.writeFileSync, which
\* truncates the file
WriteBegins(reachable) ==
    /\ writer = <<>>
    /\ LET allProjects == fetchLittleExitsProjects(reachable, source)
           marketData == stamped(calibrations[allProjects].analysis, now)
       IN  /\ writer' = <<[before |-> store, data |-> marketData]>>
           /\ calls' = [ noCalls EXCEPT !.request = <<[authorization |-> ""]>>,
                                        !.fetch = <<allProjects>>,
                                        !.marketData = <<marketData>> ]
    /\ store' = <<>>
    /\ UNCHANGED <<now, source, env, formData, oracle, resp, pager>>

\* the rest of the handler: the text is written, the file closed and the
\* response sent
WriteEnds ==
    /\ writer # <<>>
    /\ store' = <<writer[1].data>>
    /\ writer' = <<>>
    /\ calls' = [ noCalls EXCEPT !.request = <<[authorization |-> ""]>>,
                                 !.marketData = <<writer[1].data>>,
                                 !.saved = <<writer[1].data>> ]
    /\ resp' = [ endpoint |-> "market-analysis", method |-> "POST", status |-> 200,
                 body |-> [ message |-> "Market data updated successfully",
                            data |-> writer[1].data ] ]
    /\ UNCHANGED <<now, source, env, formData, oracle, pager>>

SpecOverlap ==
    InitOverlap /\ [][ \/ \E reachable \in BOOLEAN : WriteBegins(reachable)
                       \/ WriteEnds
                       \/ MarketAnalysisGet ]_vars

(***************************************************************************)
(* One request to the valuation/score endpoint, step by step: the scorer   *)
(* and the valuation each read the store, and the CLI script, a separate   *)
(* process, may write the store at any moment                              *)
(***************************************************************************)

\* handler up to the end of getSuccessScoreFromChatGPT: calculateMarketBasedScore
\* calls loadMarketData()
ScoreServed ==
    /\ calls = noCalls
    /\ LET marketData == loadMarketData_score(store, now)
           successScore == getSuccessScoreFromChatGPT(formData, marketData, env, oracle)
       IN  /\ calls' = [ noCalls EXCEPT !.request = <<formData>>, !.score = <<successScore>>,
                                        !.marketData = <<marketData>> ]
           /\ resp' = IF successScore.thrown THEN handlerResponse(calls') ELSE resp
    /\ UNCHANGED <<store, now, source, env, formData, oracle, writer, pager>>

\* the rest of the handler: getEstimatedValuation calls loadMarketData() again
ValuationServed ==
    /\ Len(calls.score) = 1
    /\ ~calls.score[1].thrown
    /\ calls.valuation = <<>>
    /\ LET marketData == loadMarketData_score(store, now)
       IN  calls' = [calls EXCEPT !.valuation = <<getEstimatedValuation(formData, marketData)>>,
                                  !.marketData = @ \o <<marketData>>]
    /\ resp' = handlerResponse(calls')
    /\ UNCHANGED <<store, now, source, env, formData, oracle, writer, pager>>

\* node scripts/update-market-data.js, run while the marketplace is unreachable,
\* writes its fallback profile
StoreOverwritten ==
    /\ store # <<updateMarketData_profile(<<>>, now)>>
    /\ store' = <<updateMarketData_profile(<<>>, now)>>
    /\ UNCHANGED <<now, source, env, formData, oracle, calls, resp, writer, pager>>

SpecServe == InitCompare /\ [][ScoreServed \/ ValuationServed \/ StoreOverwritten]_vars

(***************************************************************************)
(* Properties of the valuation/score endpoint (checked under SpecScore)     *)
(***************************************************************************)

Answered == resp.endpoint = "successscore"
Answered200 == Answered /\ resp.status = 200

\* the rule-based scorer produced the score of the request
FallbackUsed == Answered /\ (env.OPENAI_API_KEY = "" \/ oracle.kind # "ok")

\* the oracle was called and answered 200 with a text
OracleUsed == Answered /\ env.OPENAI_API_KEY # "" /\ oracle.kind = "ok"

\* tagline is a string or absent, categories is a list or absent
WellTyped(fd) ==
    /\ fd.tagline.k \in {"undefined", "string"}
    /\ fd.categories.k \in {"undefined", "array"}

OracleFailed ==
    /\ Answered
    /\ \/ env.OPENAI_API_KEY = ""
       \/ oracle.kind # "ok"
       \/ ScoreMatches(oracle.text) = {}

\* C3: on every oracle failure getSuccessScoreFromChatGPT returns exactly what the
\* rule-based scorer computes for the same submission.
C3_OracleFailureFallsBack ==
    OracleFailed =>
        calls.score[1] = calculateMarketBasedScore(formData, loadMarketData_score(store, now))

\* C4: every POST is answered 200 with the result shape, never 500.
C4_NeverInternalServerError ==
    Answered => resp.status = 200

\* C9: a score taken from the oracle's response is clamped into 1..100.
C9_OracleScoreClamped ==
    (OracleUsed /\ resp.status = 200) => resp.body.successScore \in 1..100

(***************************************************************************)
(* Properties of the market profile and its endpoints (checked under Spec) *)
(***************************************************************************)

MarketEndpoints == {"market-analysis", "market-analysis-protected"}

\* a recompute ran: a POST that was let through, or the script
Recomputed == calls.marketData # <<>>

\* the fetch of the recompute failed or returned zero records
NoRecords == calls.fetch = <<>> \/ calls.fetch[1] = <<>>

\* the default profile embedded in the program that answered
embeddedDefault ==
    CASE resp.endpoint = "market-analysis" -> getDefaultMarketData_analysis(now)
      [] resp.endpoint = "market-analysis-protected" -> getDefaultMarketData_protected(now)
      [] resp.endpoint = "cron/update-market-data" -> getDefaultMarketData_analysis(now)
      [] OTHER -> getEnhancedFallbackData(now)

\* C5: when the listings source is unreachable or returns zero records, a
\* recompute does not throw, and the profile it returns and writes to the store
\* is the embedded default profile with its default categoryMultipliers.
C5_FailedFetchYieldsDefault ==
    (Recomputed /\ NoRecords) =>
        /\ resp.status # 500
        /\ calls.marketData[1] = embeddedDefault
        /\ calls.marketData[1].categoryMultipliers # <<>>
        /\ calls.saved # <<>> => store = <<embeddedDefault>>

\* the request carried "Bearer <secret>" for the secret configured on the server
Authorized ==
    /\ env.CRON_SECRET # ""
    /\ calls.request[1].authorization = "Bearer " \o env.CRON_SECRET

\* C6: a POST to the recompute endpoint runs the calibration and overwrites the
\* store only if its Authorization header is "Bearer <secret>" for the configured
\* secret; every other POST is answered 401 and neither computes nor writes.
C6_RecomputeNeedsSecret ==
    (resp.endpoint \in MarketEndpoints /\ resp.method = "POST" /\ ~Authorized) =>
        /\ resp.status = 401
        /\ calls.marketData = <<>>
        /\ calls.saved = <<>>

\* the fields of a profile that may be public
PublicFields ==
    { "lastUpdated", "categoryMultipliers", "avgRevenueMultiple", "avgProfitMultiple",
      "avgTrafficValue", "avgCommunityValue" }

\* C7: the response of the GET market-data endpoint contains only lastUpdated,
\* categoryMultipliers and the averaged value constants, never totalProjects,
\* soldProjects or anything else of the stored profile.
C7_PublicReadExposesAggregatesOnly ==
    (resp.endpoint \in MarketEndpoints /\ resp.method = "GET") =>
        DOMAIN resp.body \subseteq PublicFields

\* C8: for every state of the store and every category the read endpoint
\* reports, the multiplier it reports is the one the valuation path looks up for
\* that category in the same store.
C8_ReadAndValuationAgree ==
    (resp.endpoint \in MarketEndpoints /\ resp.method = "GET") =>
        \A c \in DOMAIN resp.body.categoryMultipliers :
            resp.body.categoryMultipliers[c]
                = getCategoryMultiplier(c, loadMarketData_score(store, now))

\* the profiles the programs read from the store in its present state
ReadableProfiles ==
    { loadMarketData_score(store, now), loadMarketData_analysis(store, now),
      loadMarketData_protected(store, now) }

\* C10: every value of categoryMultipliers in every profile the system can
\* read, computed from a batch or embedded as a default, lies in [0.6, 2.0].
C10_MultipliersWithinBounds ==
    \A marketData \in ReadableProfiles :
        \A c \in DOMAIN marketData.categoryMultipliers :
            marketData.categoryMultipliers[c] \in 6..20

\* the batch of listings the recompute fetched, when it has listings
FetchedBatch == calls.fetch[1]
CalibratedFromListings == Recomputed /\ ~NoRecords

\* C11: for every batch of listings, a category whose accumulated weight (1.0 as
\* primary category, 0.8 per occurrence in the legacy list, 0.3 as broad
\* category) is below 3 has no entry in the categoryMultipliers a calibration
\* run writes.
C11_LowSampleCategoriesOmitted ==
    CalibratedFromListings =>
        \A c \in DOMAIN calls.marketData[1].categoryMultipliers :
            entryTotal(weightedEntries(FetchedBatch), c) >= 30

\* C12: calibrating twice from the same listings snapshot yields the identical
\* profile, lastUpdated included: a recompute (a step other than the clock's)
\* that follows a recompute of the same program from the same batch computes
\* the same profile.
C12_CalibrationIdempotent ==
    [][ ( /\ Recomputed /\ Recomputed' /\ now' = now
          /\ resp'.endpoint = resp.endpoint
          /\ calls'.fetch = calls.fetch )
        => calls'.marketData = calls.marketData ]_vars

\* a profile without its timestamp
unstamped(marketData) == [marketData EXCEPT !.lastUpdated = 0]

\* C12 as amended: calibrating twice from the same listings snapshot yields
\* profiles that agree in every field other than lastUpdated, and lastUpdated is
\* the instant of the calibration.
C12_IdempotentButForTimestamp ==
    [][ ( /\ Recomputed /\ Recomputed' /\ now' = now
          /\ resp'.endpoint = resp.endpoint
          /\ calls'.fetch = calls.fetch )
        => /\ unstamped(calls'.marketData[1]) = unstamped(calls.marketData[1])
           /\ calls'.marketData[1].lastUpdated = now' ]_vars

\* C12 witness: the API recomputed from a batch with listings at a later instant
\* than the recompute that wrote the stored profile, and the two profiles differ
\* in lastUpdated only
C12_Witness ==
    /\ CalibratedFromListings
    /\ resp.endpoint = "market-analysis"
    /\ calls.marketData[1].categoryMultipliers # <<>>
    /\ store # <<>>
    /\ store[1].lastUpdated < calls.marketData[1].lastUpdated
    /\ unstamped(store[1]) = unstamped(calls.marketData[1])

(***************************************************************************)
(* Properties of two submissions that differ in one field (SpecCompare)    *)
(***************************************************************************)

\* both submissions were answered
Compared == Len(calls.request) = 2 /\ Len(calls.score) = 2 /\ Len(calls.valuation) = 2

FirstUsers    == parseInt(calls.request[1].user_base)
SecondUsers   == parseInt(calls.request[2].user_base)
FirstTraffic  == parseInt(calls.request[1].traffic)
SecondTraffic == parseInt(calls.request[2].traffic)

\* C13: with tagline, categories, monthlyCost and the profile fixed, more users
\* never lower the user-base component of the valuation, more traffic never
\* lowers the traffic component, and neither lowers the rule-based score.
C13_MoreTractionNeverLowers ==
    (Compared /\ (SecondUsers > FirstUsers \/ SecondTraffic > FirstTraffic)) =>
        /\ UserValue(SecondUsers) >= UserValue(FirstUsers)
        /\ TrafficValue(SecondTraffic) >= TrafficValue(FirstTraffic)
        /\ ~calls.score[1].thrown /\ ~calls.score[2].thrown
        /\ calls.score[2].value >= calls.score[1].value

\* C13 witness: going from 500 to 1000 users with a monthly cost of 100 raised
\* the user-base component and the score
C13_Witness ==
    /\ Compared
    /\ FirstUsers = 500 /\ SecondUsers = 1000
    /\ calls.request[1].monthly_cost = JsString("100")
    /\ UserValue(SecondUsers) > UserValue(FirstUsers)
    /\ calls.score[2].value > calls.score[1].value

\* the scenario: 10000 users, 50000 visits, first with the category AI, then
\* with the category Blog
AIThenBlog ==
    /\ Compared
    /\ FirstUsers = 10000 /\ FirstTraffic = 50000
    /\ calls.request[1].categories = JsArray(<<"AI">>)
    /\ calls.request[2].categories = JsArray(<<"Blog">>)

\* the tagline of the scenario contains one of the test indicators
TestTagline ==
    SomeIncluded(testIndicators, toLowerCase(OrElse(calls.request[1].tagline, JsString("")).s))

\* C14: for userBase 10000 and monthlyTraffic 50000, and every tagline and
\* monthlyCost, the valuation with categories ["AI"] (multiplier 1.6) is strictly
\* greater than the valuation with categories ["Blog"] (multiplier 0.9).
C14_AIAboveBlog ==
    AIThenBlog => calls.valuation[1].valuation > calls.valuation[2].valuation

\* C14 as amended: the same for every tagline without a test indicator; with a
\* test indicator both valuations are the test-data ceiling.
C14_AIAboveBlogUnlessTest ==
    AIThenBlog =>
        IF TestTagline
        THEN calls.valuation[1].valuation = 300 /\ calls.valuation[2].valuation = 300
        ELSE calls.valuation[1].valuation > calls.valuation[2].valuation

\* C14 witness: with a strong tagline the AI valuation is the maximum and the
\* Blog valuation is below it
C14_Witness ==
    /\ AIThenBlog
    /\ calls.request[1].tagline = JsString("AI platform for businesses")
    /\ calls.valuation[1].valuation = maxValuation
    /\ calls.valuation[2].valuation < maxValuation
    /\ calls.valuation[2].valuation > 0

\* the tagline of the request contains a test indicator
TestIndicated ==
    /\ formData.tagline.k = "string"
    /\ SomeIncluded(testIndicators, toLowerCase(formData.tagline.s))

\* C15: when the tagline contains a test indicator the returned valuation is at
\* most 300, whatever userBase, monthlyTraffic, monthlyCost and categories are;
\* no later floor lifts it above 300.
C15_TestTaglineCapped ==
    (Answered200 /\ TestIndicated) => resp.body.estimatedValuation <= 300

\* no users, no traffic, no tagline
NothingSubmitted ==
    /\ parseInt(OrElse(formData.user_base, JsString("0"))) = 0
    /\ parseInt(OrElse(formData.traffic, JsString("0"))) = 0
    /\ formData.tagline = Undefined

\* C16: with userBase 0, monthlyTraffic 0 and an empty tagline, whatever the
\* categories and monthlyCost are, the valuation is at most 50 and the
\* rule-based score is at most 10.
C16_NothingSubmittedScoresLow ==
    (Answered /\ NothingSubmitted) =>
        /\ Answered200 => resp.body.estimatedValuation <= 50
        /\ (FallbackUsed /\ ~calls.score[1].thrown) => calls.score[1].value <= 10

(***************************************************************************)
(* Properties of the stages of the valuation (checked under SpecScore)     *)
(***************************************************************************)

\* the fields of the request as getEstimatedValuation parses them
SubmittedUsers == parseInt(OrElse(formData.user_base, JsString("0")))
SubmittedTraffic == parseInt(OrElse(formData.traffic, JsString("0")))
SubmittedCost == parseInt(OrElse(formData.monthly_cost, JsString("0")))
SubmittedCategories == OrElse(formData.categories, JsArray(<<>>))
SubmittedTagline == OrElse(formData.tagline, JsString(""))

\* the request was valued by the try block of getEstimatedValuation
ValuedNormally ==
    /\ Answered200
    /\ ~calls.valuation[1].fallback
    /\ IsNum(SubmittedUsers) /\ IsNum(SubmittedTraffic)

\* the base value the category factor is applied to
BaseValue == UserValue(SubmittedUsers) + TrafficValue(SubmittedTraffic) + RevenueValue(SubmittedUsers)

\* the base value times the mean of the looked-up multipliers and the
\* diversification bonus: 1.05 for two categories, 1.10 for three
DiversifiedValue ==
    LET cats == SubmittedCategories.a
        bonus == IF Len(cats) = 2 THEN 105 ELSE IF Len(cats) = 3 THEN 110 ELSE 100
    IN  IF Len(cats) = 0 THEN BaseValue
        ELSE MulDiv(BaseValue,
                    SumCategoryMultipliers(cats, Len(cats), loadMarketData_score(store, now)) * bonus,
                    1000 * Len(cats))

\* C22: the category factor applied to the base value is the arithmetic mean of
\* the looked-up multipliers of the selected categories, times 1.05 when exactly
\* two categories are selected and times 1.10 when three are (1.0 when none is).
C22_CategoryFactorWithBonus ==
    ValuedNormally =>
        categoryAdjusted(BaseValue, SubmittedCategories, loadMarketData_score(store, now))
            = DiversifiedValue

\* the base value after the category factor
CategoryAdjustedValue ==
    categoryAdjusted(BaseValue, SubmittedCategories, loadMarketData_score(store, now))

\* the category-adjusted value after the tagline and cost heuristics: the
\* quality multiplier, the cost penalty and the tagline penalty
HeuristicsApplied ==
    taglinePenalised(
        costPenalised(
            TimesQuality(CategoryAdjustedValue,
                         calculateBalancedQualityMultiplier(SubmittedTagline, SubmittedUsers,
                                                            SubmittedTraffic, SubmittedCost).value),
            SubmittedUsers, SubmittedCost),
        SubmittedTagline.s)

\* C23: the combined multiplier the tagline-signal and cost-efficiency
\* heuristics apply to the category-adjusted base value lies in [0.5, 1.8]: the
\* value after them is at least 0.5 times and at most 1.8 times the value
\* before them (up to the rounding of three multiplications).
C23_HeuristicsWithinBand ==
    ValuedNormally =>
        /\ 10 * (HeuristicsApplied + 3) >= 5 * CategoryAdjustedValue
        /\ 10 * HeuristicsApplied <= 18 * CategoryAdjustedValue

\* the submission carries a signal: a tagline, users or traffic
CarriesSignal ==
    \/ Truthy(formData.tagline)
    \/ Gt(SubmittedUsers, 0)
    \/ Gt(SubmittedTraffic, 0)

\* C26: every submission that carries any signal (a non-empty tagline,
\* userBase > 0 or monthlyTraffic > 0) receives an estimated valuation of at
\* least 50, whatever caps and penalties applied before; the valuation is 0 only
\* when the tagline is empty and userBase and monthlyTraffic are both 0.
C26_SignalGetsFloor ==
    Answered200 =>
        /\ CarriesSignal => Ge(resp.body.estimatedValuation, 50)
        /\ resp.body.estimatedValuation = 0 => ~CarriesSignal

(***************************************************************************)
(* Properties of the pagination loops (checked under SpecFetch)            *)
(***************************************************************************)

\* C17: whatever the marketplace answers, full pages with remaining > 0 forever
\* included, each pagination loop issues at most its fixed maximum number of
\* page requests and then terminates.
C17_PageRequestsBounded ==
    /\ [](pager.requests <= paginationLoops[pager.loop].maxPages)
    /\ <>(pager.phase # "running")

\* C17 witness: a loop that ended at its limit after a full page that reported
\* more to come
C17_Witness ==
    /\ pager.phase = "done"
    /\ pager.loop = "fetchAllData"
    /\ pager.requests = paginationLoops[pager.loop].maxPages
    /\ pager.last = <<[ok |-> TRUE, hasResults |-> TRUE, length |-> 100, remaining |-> 500]>>
    /\ pager.hasMore

\* the last page received told the loop to stop, or the limit is reached
StopSignalled ==
    \/ /\ pager.last # <<>>
       /\ \/ pager.last[1].remaining = 0
          \/ pager.last[1].length < paginationLoops[pager.loop].pageSize
    \/ pager.pageCount >= paginationLoops[pager.loop].maxPages

\* C18: no page request is issued after the first page that reports
\* remaining == 0, after the first page shorter than the page size, or once the
\* page-count limit is reached.
C18_NoRequestAfterStopSignal ==
    [][ pager'.requests > pager.requests => ~StopSignalled ]_vars

(***************************************************************************)
(* Properties of the store under a write (checked under SpecOverlap, Spec) *)
(***************************************************************************)

\* C19: a read that overlaps the write of a recompute returns either the
\* complete old profile or the complete new profile, never a partial one or a
\* third value such as the embedded default.
C19_ReadSeesOldOrNew ==
    [][ (writer # <<>> /\ writer' = writer /\ resp'.method = "GET")
        => resp'.body \in { loadMarketData_analysis(writer[1].before, now),
                            writer[1].data } ]_vars

\* C20: when the write of the profile fails during a recompute, the failure is
\* not propagated: the recompute still completes with its result, and the
\* stored profile is exactly as before.
C20_WriteFailureNotPropagated ==
    [][ (Recomputed' /\ calls'.saved = <<>> /\ now' = now)
        => /\ store' = store
           /\ resp'.status = IF resp'.endpoint \in MarketEndpoints THEN 200 ELSE 0 ]_vars

\* the number of listings of the fetched batch that carry the category c
ListingsCarrying(c) ==
    Cardinality({ i \in 1..Len(FetchedBatch) : c \in entryNames(listedCategories(FetchedBatch[i])) })

\* the number of times the word w occurs in the titles and descriptions of the
\* sold listings of the fetched batch
OccurrencesInSold(w) ==
    LET sold == soldOf(FetchedBatch)
    IN  entryTotal(Flatten([i \in 1..Len(sold) |-> keywordsOf(sold[i])], Len(sold)), w)

\* C25: a category appears in the computed topPerformers.mainCategories or
\* specificCategories only if at least 3 listings of the batch carry it, and a
\* word appears in topPerformers.keywords only if it occurs at least 5 times in
\* the titles and descriptions of the sold listings.
C25_TopPerformersMeetThresholds ==
    (CalibratedFromListings /\ "topPerformers" \in DOMAIN calls.marketData[1]) =>
        LET top == calls.marketData[1].topPerformers
        IN  /\ \A i \in 1..Len(top.mainCategories) :
                   ListingsCarrying(top.mainCategories[i].name) >= 3
            /\ \A i \in 1..Len(top.specificCategories) :
                   ListingsCarrying(top.specificCategories[i].name) >= 3
            /\ \A i \in 1..Len(top.keywords) :
                   OccurrencesInSold(top.keywords[i].word) >= 5

\* the pairs whose ratio price / n lies strictly inside (0, bound)
withinBand(pairs, bound) ==
    LET inside(p) == p.n > 0 /\ p.price > 0 /\ p.price < bound * p.n
    IN  SelectSeq(pairs, inside)

\* C24: the computed avgTrafficValue is the average of price/traffic over
\* exactly the sold listings with positive traffic whose ratio lies strictly
\* inside (0, 50), or 0.1 when there is none, and avgCommunityValue is the same
\* with price/users and (0, 100), or 5; hence 0 < avgTrafficValue < 50 and
\* 0 < avgCommunityValue < 100 in every computed profile.
C24_PerUnitValuesWithinBands ==
    CalibratedFromListings =>
        LET sold == soldOf(FetchedBatch)
            marketData == calls.marketData[1]
        IN  /\ marketData.avgTrafficValue = pricePerUnit(withinBand(trafficPairs(sold), 50), 10)
            /\ marketData.avgCommunityValue = pricePerUnit(withinBand(userPairs(sold), 100), 500)
            /\ marketData.avgTrafficValue > 0 /\ marketData.avgTrafficValue < 5000
            /\ marketData.avgCommunityValue > 0 /\ marketData.avgCommunityValue < 10000

\* 1.0 + successRate * 0.8 + the price-tier adjustment, capped at 2.0 and
\* rounded to one decimal, in tenths: the multiplier of a category with the
\* accumulated weight total (tenths), of which sold was sold for priceSum
fullBonusMultiplier(total, sold, priceSum) ==
    LET soldOrOne == Max(sold, 10)
        priceAdjust == IF priceSum > 20000 * soldOrOne THEN 2
                       ELSE IF priceSum > 10000 * soldOrOne THEN 1
                       ELSE IF priceSum < 5000 * soldOrOne THEN 0 - 1
                       ELSE 0
    IN  Min(20, RoundDiv(10 * total + 8 * sold + priceAdjust * total, total))

\* a recompute by one of the API variants computed multipliers from listings
ApiCalibrated == CalibratedFromListings /\ resp.endpoint \in MarketEndpoints

CronAuthorized == resp.endpoint = "cron/update-market-data" /\ Authorized

\* C21: a call of the cron endpoint that carries the correct CRON_SECRET bearer
\* token leads to an authenticated recompute: the POST it issues to the
\* market-analysis endpoint is accepted, the stored profile is updated, and the
\* cron endpoint answers with success.
C21_CronRecomputes ==
    CronAuthorized =>
        /\ resp.status = 200
        /\ Recomputed
        /\ store = calls.marketData

\* C28: after any sequence of recompute runs and for every resulting state of
\* the store, the top-performers endpoint answers 200 with a topPerformers
\* object that has the three lists mainCategories, specificCategories and
\* keywords.
C28_TopPerformersAlwaysListed ==
    resp.endpoint = "top-performers" =>
        /\ resp.status = 200
        /\ "topPerformers" \in DOMAIN resp.body
        /\ DOMAIN resp.body.topPerformers = {"mainCategories", "specificCategories", "keywords"}

(***************************************************************************)
(* Properties of one request taken step by step (checked under SpecServe)  *)
(***************************************************************************)

\* C27: within one request to the valuation/score endpoint, the score and the
\* valuation are computed from the same snapshot of the profile, also when a
\* recompute overwrites the store while the request is being served.
C27_OneSnapshotPerRequest ==
    (resp.endpoint = "successscore" /\ resp.status = 200) =>
        /\ Len(calls.marketData) = 2
        /\ calls.marketData[1] = calls.marketData[2]

(***************************************************************************)
(* What the valuation/score endpoint reads of the profile (checked under   *)
(* SpecScore)                                                              *)
(***************************************************************************)

\* the profile with every field but categoryMultipliers replaced
otherFieldsChanged(marketData) ==
    [ f \in DOMAIN marketData |->
        IF f = "categoryMultipliers" THEN marketData[f] ELSE 0 ]

\* C29: the valuation and the rule-based score depend on the profile only
\* through categoryMultipliers: a profile that agrees on categoryMultipliers and
\* differs in every other field gives the same score and the same valuation.
C29_OnlyCategoryMultipliersRead ==
    resp.endpoint = "successscore" =>
        calls = handlerCalls(formData, otherFieldsChanged(loadMarketData_score(store, now)),
                             env, oracle)

\* a submission with a matched, an unmatched and a stored category was scored by
\* the rules and valued against the stored profile
C29_Witness ==
    /\ resp.endpoint = "successscore" /\ resp.status = 200
    /\ env.OPENAI_API_KEY = ""
    /\ store # <<>>
    /\ formData.categories = JsArray(<<"ml tools", "Gaming", "Blog">>)
    /\ ~calls.valuation[1].fallback
    /\ calls.valuation[1].valuation > 0

====
